---- MODULE Spec2Model ----
(***************************************************************************)
(* A model of retl: the expression / operation AST and its evaluation to   *)
(* engine expressions (expressions.rs, conditions.rs, ops.rs), and the     *)
(* resolution and execution of configuration documents (config.rs,         *)
(* sources.rs, utils.rs).                                                  *)
(***************************************************************************)
EXTENDS Integers, Sequences, FiniteSets, TLC

VARIABLES
    ain,    \* expression specifications: the input value under evaluation
    node,   \* expression specifications: the constructed AST node (a Result) or None
    res,    \* expression specifications: the Result of expr()/apply() or None
    epc,    \* expression specifications: position ("raw", "built", "rejected", "evaluated")
    sc,     \* the documents on disk: the scenario the configuration files are written from
    fs,     \* the file system: [files, dirs], sets of absolute paths
    cwd,    \* the process-wide current directory (std::env::current_dir)
    stack,  \* per thread, the call stack of Config::from_path / run / load / Loader::load
    ret,    \* per thread, the Result the last returned call handed to its caller, or None
    log     \* history: the calls made and the paths resolved, in order

evars == <<ain, node, res, epc>>
cvars == <<sc, fs, cwd, stack, ret, log>>
vars == <<ain, node, res, epc, sc, fs, cwd, stack, ret, log>>

----------------------------------------------------------------------------
(* Bounds of the model *)

\* longest operand list handed to an And/Or constructor
MaxOperands == 3
\* longest ops list of an ExpressionChain
MaxOps == 2
\* longest chain list of the chained operations ops::And / ops::Or
MaxChains == 2
\* deepest nesting of Config sources below the root configuration
MaxDepth == 2
\* longest transforms list of a Loader or of a document
MaxTransforms == 2
\* longest exports list of a document
MaxExports == 2
\* how often from_path may open a document it is already resolving (the program has
\* no such limit: only the model's state space does)
MaxReentries == 2
\* rows of a frame that is joined
MaxRows == 2
\* the largest code point of a separator character tried
MaxChar == 300

----------------------------------------------------------------------------
(* Result<T> and Option<T> *)

Ok(v) == [ok |-> TRUE, val |-> v]
\* an anyhow::Error: the message of the error it was made from (by `?`, or by
\* anyhow!/context on an Option) and the contexts wrapped around it since, innermost
\* first; none of the functions modelled here wraps one
Err(m) == [ok |-> FALSE, err |-> m, context |-> <<>>]
None == [some |-> FALSE]
Some(v) == [some |-> TRUE, val |-> v]
\* the ? operator: the error of r is returned, or the rest goes on with its value
Try(r, Rest(_)) == IF r.ok THEN Rest(r.val) ELSE r

RECURSIVE SeqsUpTo(_, _)
\* all sequences over S of length 0..n
SeqsUpTo(S, n) ==
    IF n = 0 THEN {<<>>}
    ELSE LET shorter == SeqsUpTo(S, n - 1)
         IN  shorter \cup {Append(s, x) : s \in {t \in shorter : Len(t) = n - 1}, x \in S}

----------------------------------------------------------------------------
(* The engine's expression values (polars Expr), built symbolically *)

NULL == "NULL"
col(name) == [e |-> "col", name |-> name]
lit(value) == [e |-> "lit", value |-> value]
Expr_and(l, r) == [e |-> "and", left |-> l, right |-> r]
Expr_or(l, r) == [e |-> "or", left |-> l, right |-> r]
Expr_not(x) == [e |-> "not", input |-> x]
Expr_alias(x, name) == [e |-> "alias", input |-> x, name |-> name]
Expr_is_null(x) == [e |-> "is_null", input |-> x]
Expr_is_not_null(x) == [e |-> "is_not_null", input |-> x]
str_contains(x, pat) == [e |-> "contains", input |-> x, pattern |-> pat]
\* a binary operator of the engine: eq, neq, gt, lt, gt_eq, lt_eq, add, sub, mul, div
Expr_binary(name, l, r) == [e |-> name, left |-> l, right |-> r]

\* regular expressions the engine refuses to compile
BadRegex == {"("}
\* Expr::str().extract_groups(pat) is fallible: it compiles the pattern
str_extract_groups(x, pat) ==
    IF pat \in BadRegex THEN Err("regex parse error")
    ELSE Ok([e |-> "extract_groups", input |-> x, pattern |-> pat])

----------------------------------------------------------------------------
(* The engine's row-level meaning of boolean expressions (Kleene logic on
   true / false / null), used to state what a compiled expression selects *)

\* (pattern, text) pairs for which the regex search of pattern in text succeeds
RegexFinds == {<<"foo", "foo">>, <<"foo", "foobar">>, <<"bar", "bar">>, <<"bar", "foobar">>,
               <<"f(o+)", "foo">>, <<"f(o+)", "foobar">>}
\* the capture groups of a pattern, by name, and what they capture in a text it finds
GroupNames == [p \in {"f(o+)"} |-> {"1"}]
Captures == [pt \in {<<"f(o+)", "foo">>, <<"f(o+)", "foobar">>} |-> [g \in {"1"} |-> "oo"]]
Cells == {"foo", "bar", "foobar", NULL}
Rows == [a : Cells, b : Cells]

And3(x, y) ==
    IF x = "false" \/ y = "false" THEN "false"
    ELSE IF x = "true" /\ y = "true" THEN "true" ELSE NULL
Or3(x, y) ==
    IF x = "true" \/ y = "true" THEN "true"
    ELSE IF x = "false" /\ y = "false" THEN "false" ELSE NULL
Not3(x) == IF x = "true" THEN "false" ELSE IF x = "false" THEN "true" ELSE NULL

RECURSIVE EvalRow(_, _)
EvalRow(x, row) ==
    CASE x.e = "col" -> IF x.name \in DOMAIN row THEN row[x.name] ELSE NULL
      [] x.e = "lit" -> x.value
      [] x.e = "contains" ->
            LET v == EvalRow(x.input, row)
            IN  IF v = NULL THEN NULL
                ELSE IF <<x.pattern, v>> \in RegexFinds THEN "true" ELSE "false"
      [] x.e = "and" -> And3(EvalRow(x.left, row), EvalRow(x.right, row))
      [] x.e = "or" -> Or3(EvalRow(x.left, row), EvalRow(x.right, row))
      [] x.e = "not" -> Not3(EvalRow(x.input, row))
      [] x.e = "alias" -> EvalRow(x.input, row)
      [] x.e = "is_null" -> IF EvalRow(x.input, row) = NULL THEN "true" ELSE "false"
      [] x.e = "is_not_null" -> IF EvalRow(x.input, row) = NULL THEN "false" ELSE "true"
      \* a struct of the capture groups: nulls where the pattern finds nothing
      [] x.e = "extract_groups" ->
            LET v == EvalRow(x.input, row)
            IN  [g \in GroupNames[x.pattern] |->
                    IF <<x.pattern, v>> \in DOMAIN Captures THEN Captures[<<x.pattern, v>>][g]
                    ELSE NULL]
      [] OTHER -> NULL

----------------------------------------------------------------------------
(* The AST: ExpressionItem, ExpressionChain, OpItem values *)

Col(name) == [type |-> "col", name |-> name]
Lit(value) == [type |-> "lit", value |-> value]
Match(column, pattern) == [type |-> "match", column |-> column, pattern |-> pattern]
And(conditions) == [type |-> "and", conditions |-> conditions]
Or(conditions) == [type |-> "or", conditions |-> conditions]
Not(chain) == [type |-> "not", chain |-> chain]
ExpressionChain(expr, ops) == [expr |-> expr, ops |-> ops]

ExtractGroups(pat) == [type |-> "extract_groups", pattern |-> pat]
Alias(name) == [type |-> "alias", name |-> name]
Contains(pat) == [type |-> "contains", pattern |-> pat]
IsNull(flag) == [type |-> "is_null", flag |-> flag]
OpOr(chains) == [type |-> "or", chains |-> chains]
OpAnd(chains) == [type |-> "and", chains |-> chains]
\* Eq, Neq, Gt, Lt, GtEq, LtEq, Div, Mul, Add, Sub: one ExpressionChain operand
BinaryOpTypes == {"eq", "neq", "gt", "lt", "gt_eq", "lt_eq", "div", "mul", "add", "sub"}
BinaryOp(type, chain) == [type |-> type, chain |-> chain]

\* AST values the inputs are built from
M1 == Match("a", "foo")
M2 == Match("b", "bar")
\* a chain whose evaluation fails: extract_groups with a pattern that does not compile
KBad == ExpressionChain(Col("a"), <<ExtractGroups("(")>>)
K1 == ExpressionChain(M2, <<>>)
K2 == ExpressionChain(Col("b"), <<>>)
K3 == ExpressionChain(Col("b"), <<IsNull(TRUE)>>)

ArityMsgAnd == "and statement must have at least 2 conditions"
ArityMsgOr == "or statement must have at least 2 conditions"

----------------------------------------------------------------------------
(* expressions.rs: validating constructors *)

\* mutant of And_try_from: the arity test off by one, a single operand accepted
And_try_from_mut(value) ==
    IF Len(value) < 1 THEN Err(ArityMsgAnd) ELSE Ok(And(value))

\* an And constructor that validates nothing
And_try_from_open(value) == Ok(And(value))

\* impl TryFrom<Conditions> for And
And_try_from(value) ==
    IF Len(value) < 2 THEN Err(ArityMsgAnd) ELSE Ok(And(value))

\* impl TryFrom<Conditions> for Or
Or_try_from(value) ==
    IF Len(value) < 2 THEN Err(ArityMsgOr) ELSE Ok(Or(value))

----------------------------------------------------------------------------
(* expressions.rs / ops.rs: evaluation to engine expressions *)

RECURSIVE ExpressionItem_expr(_)
RECURSIVE ExpressionChain_expr(_)
RECURSIVE OpItem_apply(_, _)
RECURSIVE And_loop(_, _, _)
RECURSIVE Or_loop(_, _, _)
RECURSIVE ExpressionChain_fold(_, _, _)
RECURSIVE OpOr_fold(_, _, _)
RECURSIVE OpAnd_fold(_, _, _)

\* impl Expression for Match
Match_expr(self) == Ok(str_contains(col(self.column), self.pattern))

\* mutant of And_step: the operands of the engine's and swapped
And_step_mut(acc, c) == IF acc.some THEN Some(Expr_and(c, acc.val)) ELSE Some(c)

\* And::expr, the loop body: expr = match expr { None => Some(c), Some(ex) => Some(ex.and(c)) }
And_step(acc, c) == IF acc.some THEN Some(Expr_and(acc.val, c)) ELSE Some(c)

\* And::expr, the loop over self.conditions from position i, `?` leaving at the first error
And_loop(conditions, i, acc) ==
    IF i > Len(conditions) THEN Ok(acc)
    ELSE LET c == ExpressionItem_expr(conditions[i])
         IN  IF ~c.ok THEN c ELSE And_loop(conditions, i + 1, And_step(acc, c.val))

\* an And that asks for two conditions again when it is evaluated
And_expr_mut(self) ==
    LET r == And_loop(self.conditions, 1, None)
    IN  IF ~r.ok THEN r
        ELSE IF Len(self.conditions) >= 2 THEN Ok(r.val.val) ELSE Err(ArityMsgAnd)

\* impl Expression for And
And_expr(self) ==
    LET r == And_loop(self.conditions, 1, None)
    IN  IF ~r.ok THEN r
        ELSE IF r.val.some THEN Ok(r.val.val) ELSE Err(ArityMsgAnd)

\* Or::expr, the loop body
Or_step(acc, c) == IF acc.some THEN Some(Expr_or(acc.val, c)) ELSE Some(c)

Or_loop(conditions, i, acc) ==
    IF i > Len(conditions) THEN Ok(acc)
    ELSE LET c == ExpressionItem_expr(conditions[i])
         IN  IF ~c.ok THEN c ELSE Or_loop(conditions, i + 1, Or_step(acc, c.val))

\* impl Expression for Or
Or_expr(self) ==
    LET r == Or_loop(self.conditions, 1, None)
    IN  IF ~r.ok THEN r
        ELSE IF r.val.some THEN Ok(r.val.val) ELSE Err(ArityMsgOr)

\* impl Expression for ExpressionItem (the variants the model carries)
ExpressionItem_expr(self) ==
    CASE self.type = "col" -> Ok(col(self.name))
      [] self.type = "match" -> Match_expr(self)
      [] self.type = "and" -> And_expr(self)
      [] self.type = "or" -> Or_expr(self)
      [] self.type = "lit" -> Ok(lit(self.value))
      [] self.type = "not" ->
            LET r == ExpressionChain_expr(self.chain)
            IN  IF r.ok THEN Ok(Expr_not(r.val)) ELSE r

RECURSIVE ExpressionChain_fold_mut(_, _, _)
\* mutant of ExpressionChain_fold: the ops taken from the end of the list
ExpressionChain_fold_mut(ops, i, expr) ==
    IF i > Len(ops) THEN Ok(expr)
    ELSE LET r == OpItem_apply(ops[Len(ops) - i + 1], expr)
         IN  IF ~r.ok THEN r ELSE ExpressionChain_fold_mut(ops, i + 1, r.val)

\* ExpressionChain::expr, the try_fold over self.ops from position i
ExpressionChain_fold(ops, i, expr) ==
    IF i > Len(ops) THEN Ok(expr)
    ELSE LET r == OpItem_apply(ops[i], expr)
         IN  IF ~r.ok THEN r ELSE ExpressionChain_fold(ops, i + 1, r.val)

\* impl Expression for ExpressionChain
ExpressionChain_expr(self) ==
    LET base == ExpressionItem_expr(self.expr)
    IN  IF ~base.ok THEN base ELSE ExpressionChain_fold(self.ops, 1, base.val)

\* ops::Or::apply, the closure of its try_fold: Ok(chain.and(next_expr.expr()?))
OpOr_step(chain, next) == Expr_and(chain, next)

OpOr_fold(chains, i, chain) ==
    IF i > Len(chains) THEN Ok(chain)
    ELSE LET next == ExpressionChain_expr(chains[i])
         IN  IF ~next.ok THEN next ELSE OpOr_fold(chains, i + 1, OpOr_step(chain, next.val))

\* a chained Or with the arity requirement of the top-level combinator
OpOr_apply_mut(self, expr) ==
    IF Len(self.chains) < 2 THEN Err(ArityMsgOr) ELSE OpOr_fold(self.chains, 1, expr)

\* impl Op for Or
OpOr_apply(self, expr) == OpOr_fold(self.chains, 1, expr)

\* ops::And::apply, the closure of its try_fold: Ok(chain.and(next_expr.expr()?))
OpAnd_step(chain, next) == Expr_and(chain, next)

OpAnd_fold(chains, i, chain) ==
    IF i > Len(chains) THEN Ok(chain)
    ELSE LET next == ExpressionChain_expr(chains[i])
         IN  IF ~next.ok THEN next ELSE OpAnd_fold(chains, i + 1, OpAnd_step(chain, next.val))

\* impl Op for And
OpAnd_apply(self, expr) == OpAnd_fold(self.chains, 1, expr)

\* a binary operation that takes its own chain for the left operand
BinaryOp_apply_mut(name, self, expr) ==
    LET k == ExpressionChain_expr(self.chain)
    IN  IF ~k.ok THEN k ELSE Ok(Expr_binary(name, k.val, expr))

\* Eq, GtEq, LtEq, Div, Mul, Add, Sub ::apply and the inline arms Neq, Gt, Lt:
\* the incoming expression on the left, the operation's own chain on the right
BinaryOp_apply(name, self, expr) ==
    LET k == ExpressionChain_expr(self.chain)
    IN  IF ~k.ok THEN k ELSE Ok(Expr_binary(name, expr, k.val))

\* OpItem::apply (the variants the model carries)
OpItem_apply(self, expr) ==
    CASE self.type = "extract_groups" -> str_extract_groups(expr, self.pattern)
      [] self.type = "alias" -> Ok(Expr_alias(expr, self.name))
      [] self.type = "contains" -> Ok(str_contains(expr, self.pattern))
      [] self.type = "is_null" ->
            Ok(IF self.flag THEN Expr_is_null(expr) ELSE Expr_is_not_null(expr))
      [] self.type = "or" -> OpOr_apply(self, expr)
      [] self.type = "and" -> OpAnd_apply(self, expr)
      [] self.type = "eq" -> BinaryOp_apply("eq", self, expr)
      [] self.type = "neq" -> BinaryOp_apply("neq", self, expr)
      [] self.type = "gt" -> BinaryOp_apply("gt", self, expr)
      [] self.type = "lt" -> BinaryOp_apply("lt", self, expr)
      [] self.type = "gt_eq" -> BinaryOp_apply("gt_eq", self, expr)
      [] self.type = "lt_eq" -> BinaryOp_apply("lt_eq", self, expr)
      [] self.type = "div" -> BinaryOp_apply("div", self, expr)
      [] self.type = "mul" -> BinaryOp_apply("mul", self, expr)
      [] self.type = "add" -> BinaryOp_apply("add", self, expr)
      [] self.type = "sub" -> BinaryOp_apply("sub", self, expr)

----------------------------------------------------------------------------
(* conditions.rs: the standalone condition tree (Match, And, Or as trait objects) *)

CondMatch(column, pattern) == [ctype |-> "match", column |-> column, pattern |-> pattern]
CondAnd(conditions) == [ctype |-> "and", conditions |-> conditions]
CondOr(conditions) == [ctype |-> "or", conditions |-> conditions]

\* impl TryFrom<Conditions> for And (conditions.rs)
CondAnd_try_from(value) ==
    IF Len(value) < 2 THEN Err(ArityMsgAnd) ELSE Ok(CondAnd(value))

\* impl TryFrom<Conditions> for Or (conditions.rs)
CondOr_try_from(value) ==
    IF Len(value) < 2 THEN Err(ArityMsgOr) ELSE Ok(CondOr(value))

RECURSIVE Condition_expr(_)
RECURSIVE CondAnd_loop(_, _, _)
RECURSIVE CondOr_loop(_, _, _)

\* impl Condition for Match
CondMatch_expr(self) == Ok(str_contains(col(self.column), self.pattern))

CondAnd_step(acc, c) == IF acc.some THEN Some(Expr_and(acc.val, c)) ELSE Some(c)

CondAnd_loop(conditions, i, acc) ==
    IF i > Len(conditions) THEN Ok(acc)
    ELSE LET c == Condition_expr(conditions[i])
         IN  IF ~c.ok THEN c ELSE CondAnd_loop(conditions, i + 1, CondAnd_step(acc, c.val))

\* impl Condition for And
CondAnd_expr(self) ==
    LET r == CondAnd_loop(self.conditions, 1, None)
    IN  IF ~r.ok THEN r
        ELSE IF r.val.some THEN Ok(r.val.val) ELSE Err(ArityMsgAnd)

CondOr_step(acc, c) == IF acc.some THEN Some(Expr_or(acc.val, c)) ELSE Some(c)

CondOr_loop(conditions, i, acc) ==
    IF i > Len(conditions) THEN Ok(acc)
    ELSE LET c == Condition_expr(conditions[i])
         IN  IF ~c.ok THEN c ELSE CondOr_loop(conditions, i + 1, CondOr_step(acc, c.val))

\* impl Condition for Or (its empty-list message reads "and statement ...")
CondOr_expr(self) ==
    LET r == CondOr_loop(self.conditions, 1, None)
    IN  IF ~r.ok THEN r
        ELSE IF r.val.some THEN Ok(r.val.val) ELSE Err(ArityMsgAnd)

\* dyn Condition::expr, dispatched on the typetag name
Condition_expr(self) ==
    CASE self.ctype = "match" -> CondMatch_expr(self)
      [] self.ctype = "and" -> CondAnd_expr(self)
      [] self.ctype = "or" -> CondOr_expr(self)

----------------------------------------------------------------------------
(* Paths and the file system.  An absolute path is the sequence of its
   components; a PathBuf as written in a document is relative or absolute.
   The model has no symbolic links and no ".." components. *)

Rel(parts) == [abs |-> FALSE, parts |-> parts]
Abs(parts) == [abs |-> TRUE, parts |-> parts]
\* Path::join on the current directory: how the OS reads a relative path
Join(dir, p) == IF p.abs THEN p.parts ELSE dir \o p.parts
\* Path::parent
parent(path) == SubSeq(path, 1, Len(path) - 1)

\* Path::canonicalize: the absolute path, an error when nothing exists there
canonicalize(dir, p, f) ==
    LET q == Join(dir, p)
    IN  IF q \in f.files \cup f.dirs THEN Ok(q) ELSE Err("No such file or directory")

\* the directory the process is started in
W == <<"w">>
\* configuration i of a scenario lives i directories below the root configuration
ConfigDir(i) == <<"w", "a">> \o [j \in 1..i |-> "n"]
ConfigFile(i) == Append(ConfigDir(i), "c.toml")
\* how a document names the configuration nested below it
NestedConfigPath == Rel(<<"n", "c.toml">>)
DataName == [csv |-> "d.csv", json |-> "d.json", parquet |-> "d.parquet"]
ExportNames == <<"out1", "out2", "out3", "out4">>

----------------------------------------------------------------------------
(* serde: the serialized form of AST values, and its re-parsing.  derive(Serialize)
   writes a struct as a map of its fields, a newtype struct as its content, an
   enum variant as a map of one key; a type with serde(try_from = "T") is read
   as a T and converted. *)

SStr(v) == [k |-> "str", v |-> v]
SBool(v) == [k |-> "bool", v |-> v]
SSeq(items) == [k |-> "seq", items |-> items]
SMap(fields) == [k |-> "map", fields |-> fields]
SVariant(tag, body) == [k |-> "variant", tag |-> tag, body |-> body]
\* serde's error for a value of another shape than the type is read from
InvalidType(expected) ==
    Err(IF expected = "seq" THEN "invalid type: expected a sequence"
        ELSE "invalid type: expected a path string")

RECURSIVE ExpressionItem_serialize(_)
RECURSIVE ExpressionChain_serialize(_)
RECURSIVE OpItem_serialize(_)

\* derive(Serialize) for OpItem: Alias, Contains, ExtractGroups are newtypes of a String,
\* IsNull of a bool, Or and And of a Vec<ExpressionChain>, the binary operations of an
\* ExpressionChain
OpItem_serialize(self) ==
    CASE self.type = "alias" -> SVariant("alias", SStr(self.name))
      [] self.type = "contains" -> SVariant("contains", SStr(self.pattern))
      [] self.type = "extract_groups" -> SVariant("extract_groups", SStr(self.pattern))
      [] self.type = "is_null" -> SVariant("is_null", SBool(self.flag))
      [] self.type \in {"or", "and"} ->
            SVariant(self.type,
                     SSeq([i \in 1..Len(self.chains) |-> ExpressionChain_serialize(self.chains[i])]))
      [] self.type \in BinaryOpTypes ->
            SVariant(self.type, ExpressionChain_serialize(self.chain))

\* derive(Serialize) for ExpressionItem; And and Or are structs with the one field
\* conditions, Column and Literal newtypes of a String
ExpressionItem_serialize(self) ==
    CASE self.type = "col" -> SVariant("col", SStr(self.name))
      [] self.type = "lit" -> SVariant("lit", SStr(self.value))
      [] self.type = "match" ->
            SVariant("match", SMap([column |-> SStr(self.column), pattern |-> SStr(self.pattern)]))
      [] self.type \in {"and", "or"} ->
            SVariant(self.type,
                     SMap([conditions |->
                              SSeq([i \in 1..Len(self.conditions) |->
                                       ExpressionItem_serialize(self.conditions[i])])]))
      [] self.type = "not" -> SVariant("not", ExpressionChain_serialize(self.chain))

\* derive(Serialize) for ExpressionChain
ExpressionChain_serialize(self) ==
    SMap([expr |-> ExpressionItem_serialize(self.expr),
          ops |-> SSeq([i \in 1..Len(self.ops) |-> OpItem_serialize(self.ops[i])])])

RECURSIVE ExpressionItem_deserialize(_)
RECURSIVE ExpressionChain_deserialize(_)
RECURSIVE Conditions_deserialize(_, _, _)
RECURSIVE OpItem_deserialize(_)
RECURSIVE OpChains_deserialize(_, _, _)
RECURSIVE Ops_deserialize(_, _, _)

\* Deserialize for Vec<ExpressionChain>, from chain i on, the first error returned:
\* a list of any length is read
OpChains_deserialize(items, i, acc) ==
    IF i > Len(items) THEN Ok(acc)
    ELSE Try(ExpressionChain_deserialize(items[i]),
             LAMBDA v : OpChains_deserialize(items, i + 1, Append(acc, v)))

\* derive(Deserialize) for OpItem; ops::Or and ops::And are newtypes of
\* Vec<ExpressionChain> with no try_from
OpItem_deserialize(ser) ==
    CASE ser.tag = "alias" -> Ok(Alias(ser.body.v))
      [] ser.tag = "contains" -> Ok(Contains(ser.body.v))
      [] ser.tag = "extract_groups" -> Ok(ExtractGroups(ser.body.v))
      [] ser.tag = "is_null" -> Ok(IsNull(ser.body.v))
      [] ser.tag \in {"or", "and"} ->
            Try(OpChains_deserialize(ser.body.items, 1, <<>>),
                LAMBDA cs : Ok(IF ser.tag = "or" THEN OpOr(cs) ELSE OpAnd(cs)))
      [] ser.tag \in BinaryOpTypes ->
            Try(ExpressionChain_deserialize(ser.body), LAMBDA c : Ok(BinaryOp(ser.tag, c)))

\* Deserialize for Vec<OpItem>, from op i on, the first error returned
Ops_deserialize(items, i, acc) ==
    IF i > Len(items) THEN Ok(acc)
    ELSE Try(OpItem_deserialize(items[i]),
             LAMBDA v : Ops_deserialize(items, i + 1, Append(acc, v)))

\* Deserialize for Conditions = Vec<ExpressionItem>, from item i on, the first error returned
Conditions_deserialize(items, i, acc) ==
    IF i > Len(items) THEN Ok(acc)
    ELSE Try(ExpressionItem_deserialize(items[i]),
             LAMBDA v : Conditions_deserialize(items, i + 1, Append(acc, v)))

\* derive(Deserialize) for ExpressionItem; And and Or with serde(try_from = "Conditions")
\* are read as a sequence and handed to try_from
ExpressionItem_deserialize(ser) ==
    CASE ser.tag = "col" -> Ok(Col(ser.body.v))
      [] ser.tag = "lit" -> Ok(Lit(ser.body.v))
      [] ser.tag = "match" -> Ok(Match(ser.body.fields.column.v, ser.body.fields.pattern.v))
      [] ser.tag \in {"and", "or"} ->
            IF ser.body.k # "seq" THEN InvalidType("seq")
            ELSE Try(Conditions_deserialize(ser.body.items, 1, <<>>),
                     LAMBDA cs : IF ser.tag = "and" THEN And_try_from(cs) ELSE Or_try_from(cs))
      [] ser.tag = "not" ->
            Try(ExpressionChain_deserialize(ser.body), LAMBDA c : Ok(Not(c)))

\* derive(Deserialize) for ExpressionChain
ExpressionChain_deserialize(ser) ==
    Try(ExpressionItem_deserialize(ser.fields.expr), LAMBDA e :
    Try(Ops_deserialize(ser.fields.ops.items, 1, <<>>), LAMBDA ops :
        Ok(ExpressionChain(e, ops))))

----------------------------------------------------------------------------
(* Documents.  A scenario fixes what is on disk: a chain of sc.depth nested
   configurations below the root one, every document with sc.nL loader
   transforms, sc.nD document transforms and sc.nE exports, the innermost
   source of type sc.src, and at most one faulty transform or export. *)

Select(chains) == [type |-> "select", chains |-> chains]
\* exports.rs: CsvExport, NdJsonExport, JsonExport (the latter two have no sink field)
CsvExport(folder, name, date_format, sink) ==
    [type |-> "csv", folder |-> folder, name |-> name, date_format |-> date_format, sink |-> sink]
NdJsonExport(folder, name, date_format) ==
    [type |-> "nd_json", folder |-> folder, name |-> name, date_format |-> date_format,
     sink |-> None]
JsonExport(folder, name, date_format) ==
    [type |-> "json", folder |-> folder, name |-> name, date_format |-> date_format,
     sink |-> None]
\* the kind of export a scenario's documents list: variant, date_format, sink
PlainCsv == [type |-> "csv", date_format |-> None, sink |-> None]
NoFault == [at |-> "none", doc |-> 0, stage |-> "none", idx |-> 0]
TransformFault(d, stage, k) == [at |-> "transform", doc |-> d, stage |-> stage, idx |-> k]
ExportFault(k) == [at |-> "export", doc |-> 0, stage |-> "none", idx |-> k]
ArityFault(d, stage, k) == [at |-> "arity", doc |-> d, stage |-> stage, idx |-> k]

\* a written chain that negates an `and` of a single operand
OneOperand ==
    SMap([expr |-> SVariant("not",
                            SMap([expr |-> SVariant("and", SSeq(<<ExpressionItem_serialize(Col("a"))>>)),
                                  ops |-> SSeq(<<>>)])),
          ops |-> SSeq(<<>>)])

\* the transforms a document lists, as written: Select over a column, the faulty one
\* over a chain whose regex does not compile or over an `and` of one operand
RawTransforms(s, d, stage, n) ==
    [k \in 1..n |->
        Select(<<IF s.fault = TransformFault(d, stage, k) THEN ExpressionChain_serialize(KBad)
                 ELSE IF s.fault = ArityFault(d, stage, k) THEN OneOperand
                 ELSE ExpressionChain_serialize(K2)>>)]

\* the exports a document lists; the faulty one names a folder below a regular file
RawExports(s, d) ==
    [k \in 1..s.nE |->
        LET folder == Rel(IF d = 0 /\ s.fault = ExportFault(k)
                          THEN <<"blocked", "out">> ELSE <<"out">>)
        IN  CASE s.xk.type = "csv" ->
                    CsvExport(folder, ExportNames[k], s.xk.date_format, s.xk.sink)
              [] s.xk.type = "nd_json" ->
                    NdJsonExport(folder, ExportNames[k], s.xk.date_format)
              [] s.xk.type = "json" ->
                    JsonExport(folder, ExportNames[k], s.xk.date_format)]

RawSource(s, d) ==
    IF d < s.depth \/ s.src = "config" THEN [type |-> "config", path |-> NestedConfigPath]
    ELSE IF s.src = "self" THEN [type |-> "config", path |-> Rel(<<"c.toml">>)]
    ELSE IF s.src = "root" THEN [type |-> "config", path |-> Abs(ConfigFile(0))]
    ELSE IF s.src = "inline" THEN [type |-> "inline", df |-> <<>>]
    ELSE [type |-> s.src, path |-> Rel(<<DataName[s.src]>>)]

\* the text of configuration d
RawDoc(s, d) ==
    [source |-> RawSource(s, d),
     ltransforms |-> RawTransforms(s, d, "loader", s.nL),
     transforms |-> RawTransforms(s, d, "document", s.nD),
     exports |-> RawExports(s, d)]

\* std::fs::read_to_string of a configuration file
read_to_string(s, path) ==
    IF \E d \in 0..s.depth : path = ConfigFile(d)
    THEN Ok(RawDoc(s, CHOOSE d \in 0..s.depth : path = ConfigFile(d)))
    ELSE Err("cannot read")

\* the file system a scenario starts from: the configuration files, a data file in the
\* start directory and beside every configuration (beside the innermost one only when
\* sc.present), and a regular file named "blocked" beside the root configuration
InitFs(s) ==
    LET dataDirs == {W} \cup {ConfigDir(d) : d \in 0..(s.depth - 1)}
                    \cup (IF s.present THEN {ConfigDir(s.depth)} ELSE {})
        data == IF s.src \in DOMAIN DataName
                THEN {Append(dir, DataName[s.src]) : dir \in dataDirs} ELSE {}
    IN  [files |-> {ConfigFile(d) : d \in 0..s.depth} \cup data
                   \cup {Append(ConfigDir(0), "blocked")},
         dirs |-> {<<>>, W} \cup {ConfigDir(d) : d \in 0..s.depth}]

----------------------------------------------------------------------------
(* utils.rs / sources.rs: deserialization of a document (toml::from_str) *)

\* impl TryFrom<PathBuf> for CanonicalPath: canonicalize, an error when missing
CanonicalPath_try_from(value, dir, f) == canonicalize(dir, value, f)

\* glob(value) in directory dir: a pattern without wildcards matches the path of that
\* name, as written, when something exists there, and nothing otherwise; no match is
\* no error
Glob(value, dir, f) == IF Join(dir, value) \in f.files \cup f.dirs THEN <<value>> ELSE <<>>

\* .map(|res| res.map(|p| p.canonicalize())).collect(): every match canonicalized in
\* directory dir, the first error returned
CanonicalPaths_collect(matches, dir, f) ==
    IF matches = <<>> THEN Ok(<<>>)
    ELSE Try(canonicalize(dir, matches[1], f), LAMBDA q : Ok(<<q>>))

\* impl TryFrom<PathBuf> for CanonicalPaths, the current directory being dir throughout
CanonicalPaths_try_from(value, dir, f) == CanonicalPaths_collect(Glob(value, dir, f), dir, f)

\* the sources that hold CanonicalPaths: the globbed paths, and the source that
\* canonicalizing the matches in directory dir makes of them
Globbed(raw) == raw.type \in {"csv", "json_line"}
SourceItem_collect(raw, matches, dir, f) ==
    Try(CanonicalPaths_collect(matches, dir, f),
        LAMBDA ps : Ok([type |-> raw.type, path |-> ps]))

\* Deserialize for SourceItem: Csv / JsonLine hold CanonicalPaths, Json / Config hold a
\* CanonicalPath, Parquet holds its paths as written (Arc<[PlPath]>), Inline holds a frame
SourceItem_deserialize(raw, dir, f) ==
    CASE Globbed(raw) ->
            Try(CanonicalPaths_try_from(raw.path, dir, f),
                LAMBDA ps : Ok([type |-> raw.type, path |-> ps]))
      [] raw.type \in {"json", "config"} ->
            LET c == CanonicalPath_try_from(raw.path, dir, f)
            IN  IF c.ok THEN Ok([type |-> raw.type, path |-> c.val]) ELSE c
      [] raw.type = "parquet" -> Ok([type |-> "parquet", paths |-> raw.path])
      [] raw.type = "inline" -> Ok([type |-> "inline", df |-> raw.df])

\* the paths deserialization resolves against the current directory
SourceItem_resolves(raw) ==
    IF raw.type \in {"csv", "json_line", "json", "config"} THEN <<raw.path>> ELSE <<>>

\* toml::from_str::<Config>: source is a flattened Loader {source, transforms}
RECURSIVE Chains_deserialize(_, _, _)
RECURSIVE Transforms_deserialize(_, _, _)

\* Deserialize for Vec<ExpressionChain>, from chain i on, the first error returned
Chains_deserialize(sers, i, acc) ==
    IF i > Len(sers) THEN Ok(acc)
    ELSE Try(ExpressionChain_deserialize(sers[i]),
             LAMBDA v : Chains_deserialize(sers, i + 1, Append(acc, v)))

\* derive(Deserialize) for TransformItem (the variants the model carries)
TransformItem_deserialize(raw) ==
    CASE raw.type = "select" ->
            Try(Chains_deserialize(raw.chains, 1, <<>>), LAMBDA cs : Ok(Select(cs)))

\* Deserialize for Vec<TransformItem>, from item i on, the first error returned
Transforms_deserialize(raws, i, acc) ==
    IF i > Len(raws) THEN Ok(acc)
    ELSE Try(TransformItem_deserialize(raws[i]),
             LAMBDA v : Transforms_deserialize(raws, i + 1, Append(acc, v)))

\* derive(Deserialize) for Config, from the Result src of its Loader's source on: the
\* document's transforms, then its exports
Config_assemble(file, lts, src) ==
    Try(src, LAMBDA s :
    Try(Transforms_deserialize(file.transforms, 1, <<>>), LAMBDA ts :
        Ok([source |-> [source |-> s, transforms |-> lts],
            transforms |-> ts,
            exports |-> file.exports])))

\* toml::from_str::<Config>, the current directory being dir throughout: the fields in
\* the order source, transforms, exports.  The source is a Loader, whose own field
\* transforms is read as the table is walked and whose flattened SourceItem is built
\* from the keys left over afterwards: an error in the loader's transforms comes first
toml_from_str(file, dir, f) ==
    Try(Transforms_deserialize(file.ltransforms, 1, <<>>), LAMBDA lts :
        Config_assemble(file, lts, SourceItem_deserialize(file.source, dir, f)))

----------------------------------------------------------------------------
(* The engine's plans (LazyFrame): the scan and the steps applied to it *)

\* a scan of files the engine has located
Scan(type, files) == <<[op |-> "scan", type |-> type, located |-> TRUE, files |-> files]>>
\* a scan whose path the engine has yet to locate
ScanLater(type, path, doc) ==
    <<[op |-> "scan", type |-> type, located |-> FALSE, path |-> path, doc |-> doc]>>

\* a frame held in memory, with the file its rows were read from (none: <<>>) and the
\* rows where the model carries them
InMemory(from, rows) == <<[op |-> "frame", from |-> from, rows |-> rows]>>
IsScan(n) == n.op = "scan"
\* the file a source's load has read rows from, when it has
RowsRead(r) == IF r.ok /\ r.val[1].op = "frame" /\ r.val[1].from # <<>>
               THEN <<r.val[1].from>> ELSE <<>>

\* the scans whose path the engine still has to locate when it runs the plan
IsUnlocated(n) == n.op = "scan" /\ ~n.located
Unlocated(lf) == {k \in 1..Len(lf) : IsUnlocated(lf[k])}

\* running a plan in directory dir: every scan not yet located is looked up there
Materialize(lf, dir, f) ==
    IF \A k \in Unlocated(lf) : Join(dir, lf[k].path) \in f.files
    THEN Ok(lf) ELSE Err("No such file or directory")

----------------------------------------------------------------------------
(* sources.rs: Source::load of the sources that read files *)

\* impl Source for CsvSource: LazyCsvReader::new_paths(paths) ... finish(); what the
\* engine answers to an empty path list is the engine's choice
CsvSource_load(self, refuse) ==
    IF self.path = <<>> /\ refuse THEN Err("no source files")
    ELSE Ok(Scan("csv", self.path))

\* impl Source for JsonSource: File::open(&self.path)?, JsonReader::finish()?.lazy():
\* the file is read at once into a frame
JsonSource_load(self, f) ==
    IF self.path \in f.files THEN Ok(InMemory(self.path, <<>>))
    ELSE Err("No such file or directory")

\* impl Source for ParquetSource: scan_parquet_files(self.paths, ..); the path is handed
\* over as written, and the engine looks it up either now or when the plan is run
ParquetSource_load(self, now, dir, f, doc) ==
    IF now
    THEN IF Join(dir, self.paths) \in f.files
         THEN Ok(Scan("parquet", <<Join(dir, self.paths)>>))
         ELSE Err("No such file or directory")
    ELSE Ok(ScanLater("parquet", self.paths, doc))

\* impl Source for InlineSource
InlineSource_load(self) == Ok(InMemory(<<>>, self.df))

\* impl Source for SourceItem, the sources other than Config
SourceItem_load(self, choice, dir, f, doc) ==
    CASE self.type = "csv" -> CsvSource_load(self, choice)
      [] self.type = "json" -> JsonSource_load(self, f)
      [] self.type = "parquet" -> ParquetSource_load(self, choice, dir, f, doc)
      [] self.type = "inline" -> InlineSource_load(self)

----------------------------------------------------------------------------
(* transforms.rs *)

JoinTypes == {"inner", "left", "right", "full", "anti"}
ConcatTypes == {"diagonal", "horizontal", "vertical"}
Filter(chains) == [type |-> "filter", chains |-> chains]
Extract(matcher, filter) == [type |-> "extract", matcher |-> matcher, filter |-> filter]
JoinItem(right, left_on, right_on, how) ==
    [type |-> "join", right |-> right, left_on |-> left_on, right_on |-> right_on, how |-> how]
Concat(loader, how) == [type |-> "concat", loader |-> loader, how |-> how]

RECURSIVE TransformItem_transform(_, _, _, _, _)
RECURSIVE Loader_fold(_, _, _, _, _, _)
RECURSIVE Exprs_collect(_, _, _)
RECURSIVE Filter_fold(_, _, _)

\* impl Transform for Select: every chain evaluated, the first error returned
Select_transform(self, lf) ==
    LET rs == [k \in 1..Len(self.chains) |-> ExpressionChain_expr(self.chains[k])]
    IN  IF \E k \in 1..Len(rs) : ~rs[k].ok
        THEN rs[CHOOSE k \in 1..Len(rs) : ~rs[k].ok /\ \A j \in 1..(k - 1) : rs[j].ok]
        ELSE Ok(Append(lf, [op |-> "select", exprs |-> [k \in 1..Len(rs) |-> rs[k].val]]))

RECURSIVE Filter_fold_mut(_, _, _)
\* a fold that applies the first chain only
Filter_fold_mut(chains, i, lf) ==
    IF i > Len(chains) \/ i > 1 THEN Ok(lf)
    ELSE LET x == ExpressionChain_expr(chains[i])
         IN  IF ~x.ok THEN x
             ELSE Filter_fold_mut(chains, i + 1, Append(lf, [op |-> "filter", predicate |-> x.val]))

\* Filter::transform, the try_fold over its chains from position i:
\* Ok(lf.filter(chain.expr()?))
Filter_fold(chains, i, lf) ==
    IF i > Len(chains) THEN Ok(lf)
    ELSE LET x == ExpressionChain_expr(chains[i])
         IN  IF ~x.ok THEN x
             ELSE Filter_fold(chains, i + 1, Append(lf, [op |-> "filter", predicate |-> x.val]))

\* impl Transform for Filter
Filter_transform(self, lf) == Filter_fold(self.chains, 1, lf)

\* an Extract that extracts first and removes the rows without a match afterwards
Extract_transform_mut(self, lf) ==
    LET m == Match_expr(self.matcher)
        alias == "_" \o self.matcher.column \o "_groups"
        groups == str_extract_groups(col(self.matcher.column), self.matcher.pattern)
    IN  IF ~groups.ok THEN groups
        ELSE LET out == lf \o <<[op |-> "select",
                                 exprs |-> <<col("*"), Expr_alias(groups.val, alias)>>],
                                [op |-> "unnest", names |-> <<alias>>]>>
             IN  IF self.filter /\ ~m.ok THEN m
                 ELSE Ok(IF self.filter
                         THEN Append(out, [op |-> "filter", predicate |-> m.val])
                         ELSE out)

\* impl Transform for Extract: if self.filter, lf.filter(self.matcher.expr()?); then every
\* column and the capture groups under an alias are selected, and the alias unnested
Extract_transform(self, lf) ==
    LET m == Match_expr(self.matcher)
        alias == "_" \o self.matcher.column \o "_groups"
        groups == str_extract_groups(col(self.matcher.column), self.matcher.pattern)
        lf1 == IF self.filter THEN Append(lf, [op |-> "filter", predicate |-> m.val]) ELSE lf
    IN  IF self.filter /\ ~m.ok THEN m
        ELSE IF ~groups.ok THEN groups
        ELSE Ok(lf1 \o <<[op |-> "select",
                          exprs |-> <<col("*"), Expr_alias(groups.val, alias)>>],
                         [op |-> "unnest", names |-> <<alias>>]>>)

\* a mapping that hands the engine an inner join for `left`
JoinType_engine_mut(how) ==
    CASE how = "inner" -> "Inner" [] how = "left" -> "Inner" [] how = "right" -> "Right"
      [] how = "full" -> "Full" [] how = "anti" -> "Anti"

\* match self.how { JoinType::Inner => polars::prelude::JoinType::Inner, ... }
JoinType_engine(how) ==
    CASE how = "inner" -> "Inner" [] how = "left" -> "Left" [] how = "right" -> "Right"
      [] how = "full" -> "Full" [] how = "anti" -> "Anti"

\* .iter().map(|e| e.expr()).collect::<Result<Vec<Expr>>>(): the first error returned
Exprs_collect(chains, i, acc) ==
    IF i > Len(chains) THEN Ok(acc)
    ELSE LET r == ExpressionChain_expr(chains[i])
         IN  IF ~r.ok THEN r ELSE Exprs_collect(chains, i + 1, Append(acc, r.val))

\* Loader::load's loop over its transforms
Loader_fold(transforms, i, lf, dir, f, doc) ==
    IF i > Len(transforms) THEN Ok(lf)
    ELSE LET r == TransformItem_transform(transforms[i], lf, dir, f, doc)
         IN  IF ~r.ok THEN r ELSE Loader_fold(transforms, i + 1, r.val, dir, f, doc)

\* Loader::load of a loader whose source is no configuration
Loader_load_value(self, dir, f, doc) ==
    LET lf == SourceItem_load(self.source, FALSE, dir, f, doc)
    IN  IF ~lf.ok THEN lf ELSE Loader_fold(self.transforms, 1, lf.val, dir, f, doc)

\* impl Transform for Join: the right loader is loaded, the key expressions of the left
\* and of the right are evaluated, and lf1.join(lf2, ...) is appended to the plan
Join_transform(self, lf1, dir, f, doc) ==
    LET lf2 == Loader_load_value(self.right, dir, f, doc)
        lo == Exprs_collect(self.left_on, 1, <<>>)
        ro == Exprs_collect(self.right_on, 1, <<>>)
    IN  IF ~lf2.ok THEN lf2
        ELSE IF ~lo.ok THEN lo
        ELSE IF ~ro.ok THEN ro
        ELSE Ok(Append(lf1, [op |-> "join", right |-> lf2.val, left_on |-> lo.val,
                             right_on |-> ro.val, how |-> JoinType_engine(self.how),
                             coalesce |-> TRUE]))

\* the engine's concat of the names of ConcatType
ConcatType_engine(how) ==
    CASE how = "diagonal" -> "concat_lf_diagonal" [] how = "horizontal" -> "concat_lf_horizontal"
      [] how = "vertical" -> "concat"

\* a Concat that loads the other loader's source and leaves its transforms out
Concat_transform_mut(self, lf1, dir, f, doc) ==
    LET lf2 == SourceItem_load(self.loader.source, FALSE, dir, f, doc)
    IN  IF ~lf2.ok THEN lf2
        ELSE Ok(Append(lf1, [op |-> "concat", other |-> lf2.val,
                             how |-> ConcatType_engine(self.how)]))

\* impl Transform for Concat: the other loader is loaded, then [lf1, lf2] concatenated
Concat_transform(self, lf1, dir, f, doc) ==
    LET lf2 == Loader_load_value(self.loader, dir, f, doc)
    IN  IF ~lf2.ok THEN lf2
        ELSE Ok(Append(lf1, [op |-> "concat", other |-> lf2.val,
                             how |-> ConcatType_engine(self.how)]))

\* impl Transform for TransformItem (the variants the model carries)
TransformItem_transform(self, lf, dir, f, doc) ==
    CASE self.type = "select" -> Select_transform(self, lf)
      [] self.type = "filter" -> Filter_transform(self, lf)
      [] self.type = "extract" -> Extract_transform(self, lf)
      [] self.type = "join" -> Join_transform(self, lf, dir, f, doc)
      [] self.type = "concat" -> Concat_transform(self, lf, dir, f, doc)

----------------------------------------------------------------------------
(* exports.rs *)

Prefixes(path) == {SubSeq(path, 1, k) : k \in 0..Len(path)}

\* the local times an export may run at
Clock == {[Y |-> "2024", H |-> "07"], [Y |-> "2025", H |-> "23"]}
\* chrono: now.naive_local().format(fstring).to_string(), for the format strings the
\* scenarios use; text that is no specifier is copied
strftime(now, fstring) ==
    CASE fstring = "%Y" -> now.Y
      [] fstring = "_%H" -> "_" \o now.H

\* a file name that leaves the date format out
Export_filename_mut(self, now, ext) == self.name \o ext

\* the file name of the three exports: name, the formatted current time if date_format
\* is set, the extension
Export_filename(self, now, ext) ==
    self.name \o (IF self.date_format.some THEN strftime(now, self.date_format.val) ELSE "")
              \o ext

\* an export that hands the plan to an engine sink (sink_csv, sink_json), after
\* create_dir_all(folder)?; [r: the Result, fs: the file system afterwards, ran: whether
\* the engine was asked to run the plan].  Whether a sink whose plan fails has created
\* its file by then is the engine's choice (partial)
Export_sink(self, lf, dir, f, now, ext, partial) ==
    LET folder == Join(dir, self.folder)
        made == [f EXCEPT !.dirs = @ \cup Prefixes(folder)]
        target == Append(folder, Export_filename(self, now, ext))
        run == Materialize(lf, dir, f)
    IN  IF Prefixes(folder) \cap f.files # {}
        THEN [r |-> Err("Not a directory"), fs |-> f, ran |-> FALSE]
        ELSE IF ~run.ok
        THEN [r |-> run, ran |-> TRUE,
              fs |-> IF partial THEN [made EXCEPT !.files = @ \cup {target}] ELSE made]
        ELSE [r |-> Ok(<<>>), ran |-> TRUE, fs |-> [made EXCEPT !.files = @ \cup {target}]]

\* an export that creates its file (File::create) and then collects the plan and
\* writes the frame: the file is there when collect fails
Export_collect(self, lf, dir, f, now, ext) ==
    LET folder == Join(dir, self.folder)
        made == [f EXCEPT !.dirs = @ \cup Prefixes(folder)]
        target == Append(folder, Export_filename(self, now, ext))
        run == Materialize(lf, dir, f)
    IN  IF Prefixes(folder) \cap f.files # {}
        THEN [r |-> Err("Not a directory"), fs |-> f, ran |-> FALSE]
        ELSE [r |-> IF run.ok THEN Ok(<<>>) ELSE run, ran |-> TRUE,
              fs |-> [made EXCEPT !.files = @ \cup {target}]]

\* impl Export for CsvExport: a sink unless sink = false
CsvExport_export(self, lf, dir, f, now, partial) ==
    IF (IF self.sink.some THEN self.sink.val ELSE TRUE)
    THEN Export_sink(self, lf, dir, f, now, ".csv", partial)
    ELSE Export_collect(self, lf, dir, f, now, ".csv")

\* impl Export for NdJsonExport
NdJsonExport_export(self, lf, dir, f, now, partial) ==
    Export_sink(self, lf, dir, f, now, ".jsonl", partial)

\* impl Export for JsonExport
JsonExport_export(self, lf, dir, f, now) ==
    Export_collect(self, lf, dir, f, now, ".json")

\* ExportItem::export
ExportItem_export(self, lf, dir, f, now, partial) ==
    CASE self.type = "csv" -> CsvExport_export(self, lf, dir, f, now, partial)
      [] self.type = "nd_json" -> NdJsonExport_export(self, lf, dir, f, now, partial)
      [] self.type = "json" -> JsonExport_export(self, lf, dir, f, now)

----------------------------------------------------------------------------
(* Call stacks.  A frame is one activation of Config::from_path (with
   with_current_dir inlined at its call site), Config::run, Config::load or
   Loader::load; doc is the file the frame's configuration was read from. *)

Threads == {1, 2}
NoConfig == [none |-> TRUE]

Frame(fn, path, cb, doc, cfg) ==
    [fn |-> fn, pc |-> "start", path |-> path, cb |-> cb, file |-> NoConfig,
     old_cd |-> <<>>, doc |-> doc, cfg |-> cfg, lf |-> <<>>, i |-> 0, found |-> <<>>]

Top(t) == stack[t][Len(stack[t])]
At(t, fn, pc) == stack[t] # <<>> /\ Top(t).fn = fn /\ Top(t).pc = pc
\* the stack with the top frame replaced
WithTop(t, f) == [stack EXCEPT ![t][Len(stack[t])] = f]
\* the stack with the top frame replaced and a callee's frame pushed
WithCall(t, f, g) == [stack EXCEPT ![t] = Append(SubSeq(@, 1, Len(@) - 1), f) \o <<g>>]
\* the stack with the top frame popped
Popped(t) == [stack EXCEPT ![t] = SubSeq(@, 1, Len(@) - 1)]
Returned(t, r) == [ret EXCEPT ![t] = r]

\* history records
Enter(t, path) ==
    [ev |-> "enter", t |-> t, path |-> path, cwd |-> cwd, depth |-> Len(stack[t])]
Exit(t, path, dir, r) ==
    [ev |-> "exit", t |-> t, path |-> path, cwd |-> dir, depth |-> Len(stack[t]), ok |-> r.ok]
Resolve(doc, path, base) == [ev |-> "resolve", doc |-> doc, path |-> path, base |-> base]
Called(t, ev, doc) == [ev |-> ev, t |-> t, doc |-> doc]
\* func(config) of from_path is invoked for document doc, in directory dir
Callback(t, doc, dir) == [ev |-> "callback", t |-> t, doc |-> doc, cwd |-> dir]
Transformed(t, doc, stage, idx, r) ==
    [ev |-> "transform", t |-> t, doc |-> doc, stage |-> stage, idx |-> idx, ok |-> r.ok,
     r |-> r]
Exported(t, doc, idx, lf, r, now, new) ==
    [ev |-> "export", t |-> t, doc |-> doc, idx |-> idx, lf |-> lf, ok |-> r.ok, r |-> r,
     now |-> now, new |-> new]
Loaded(t, doc, r) == [ev |-> "loaded", t |-> t, doc |-> doc, r |-> r]
\* rows of a file are read, by a source's load or by an export running the plan
Read(doc, file, by) == [ev |-> "read", doc |-> doc, file |-> file, by |-> by]

----------------------------------------------------------------------------
(* Inputs of the expression specifications *)

\* operands of an expression-level And/Or
ExprOperands == {M1, M2, Not(ExpressionChain(M1, <<>>)), Not(KBad), And(<<M1, M2>>)}
\* operands of a standalone condition And/Or
CondOperands ==
    {CondMatch("a", "foo"), CondMatch("b", "bar"),
     CondOr(<<CondMatch("a", "foo"), CondMatch("b", "bar")>>)}

LogicInputs ==
    [lvl : {"expression"}, kind : {"and", "or"}, value : SeqsUpTo(ExprOperands, MaxOperands)]
    \cup
    [lvl : {"condition"}, kind : {"and", "or"}, value : SeqsUpTo(CondOperands, MaxOperands)]

ChainBases == {Col("a"), M1, Not(KBad)}
ChainOps ==
    {Alias("x"), Contains("foo"), IsNull(TRUE), ExtractGroups("(x)"), ExtractGroups("("),
     OpOr(<<K1>>), OpAnd(<<K1, KBad>>), BinaryOp("sub", K2), BinaryOp("gt", K2)}
ChainInputs == {ExpressionChain(b, o) : b \in ChainBases, o \in SeqsUpTo(ChainOps, MaxOps)}

ArgChains == {K1, K3, KBad}
OpUniverse ==
    {Alias("x"), Contains("foo"), IsNull(TRUE), IsNull(FALSE), ExtractGroups("(x)"),
     ExtractGroups("(")}
    \cup {OpOr(ks) : ks \in SeqsUpTo(ArgChains, MaxChains)}
    \cup {OpAnd(ks) : ks \in SeqsUpTo(ArgChains, MaxChains)}
    \cup {BinaryOp(t, K2) : t \in BinaryOpTypes}
Incoming == {col("a"), str_contains(col("a"), "foo")}
OpInputs == [expr : Incoming, op : OpUniverse]

----------------------------------------------------------------------------
(* SpecLogic: construction and evaluation of an And/Or node *)

\* serde(try_from = "Conditions"): the constructor deserialization goes through
TryFrom(lvl, kind, value) ==
    IF lvl = "expression"
    THEN IF kind = "and" THEN And_try_from(value) ELSE Or_try_from(value)
    ELSE IF kind = "and" THEN CondAnd_try_from(value) ELSE CondOr_try_from(value)

\* expr() of a constructed node of either level
Node_expr(lvl, n) ==
    IF lvl = "expression" THEN ExpressionItem_expr(n) ELSE Condition_expr(n)

\* the configuration machinery at rest, for the specifications of pure evaluation
ConfigIdle ==
    /\ sc = [depth |-> 0]
    /\ fs = [files |-> {}, dirs |-> {}]
    /\ cwd = <<"w">>
    /\ stack = [t \in {1, 2} |-> <<>>]
    /\ ret = [t \in {1, 2} |-> None]
    /\ log = <<>>

InitLogic ==
    /\ ConfigIdle
    /\ ain \in LogicInputs
    /\ node = None
    /\ res = None
    /\ epc = "raw"

\* the operand list arrives from a document: the node is built by try_from
Deserialize ==
    /\ epc = "raw"
    /\ LET r == TryFrom(ain.lvl, ain.kind, ain.value)
       IN  /\ node' = [via |-> "try_from", r |-> r]
           /\ epc' = IF r.ok THEN "built" ELSE "rejected"
    /\ UNCHANGED <<ain, res>> /\ UNCHANGED cvars

\* expressions.rs: `pub conditions` lets code build And { conditions } / Or { conditions }
\* as a struct literal, with no validation
Literal ==
    /\ epc = "raw"
    /\ ain.lvl = "expression"
    /\ node' = [via |-> "literal",
                r |-> Ok(IF ain.kind = "and" THEN And(ain.value) ELSE Or(ain.value))]
    /\ epc' = "built"
    /\ UNCHANGED <<ain, res>> /\ UNCHANGED cvars

\* expr() on the constructed node
Evaluate ==
    /\ epc = "built"
    /\ res' = Node_expr(ain.lvl, node.r.val)
    /\ epc' = "evaluated"
    /\ UNCHANGED <<ain, node>> /\ UNCHANGED cvars

NextLogic == Deserialize \/ Literal \/ Evaluate
SpecLogic == InitLogic /\ [][NextLogic]_vars

----------------------------------------------------------------------------
(* SpecChain: evaluation of an ExpressionChain *)

InitChain ==
    /\ ConfigIdle
    /\ ain \in ChainInputs
    /\ node = None
    /\ res = None
    /\ epc = "built"

EvaluateChain ==
    /\ epc = "built"
    /\ res' = ExpressionChain_expr(ain)
    /\ epc' = "evaluated"
    /\ UNCHANGED <<ain, node>> /\ UNCHANGED cvars

NextChain == EvaluateChain
SpecChain == InitChain /\ [][NextChain]_vars

----------------------------------------------------------------------------
(* SpecOp: one operation applied to an incoming engine expression *)

InitOp ==
    /\ ConfigIdle
    /\ ain \in OpInputs
    /\ node = None
    /\ res = None
    /\ epc = "written"

\* the operation as a document writes it, read by derive(Deserialize)
DeserializeOp ==
    /\ epc = "written"
    /\ LET r == OpItem_deserialize(OpItem_serialize(ain.op))
       IN  /\ node' = r
           /\ epc' = IF r.ok THEN "built" ELSE "rejected"
    /\ UNCHANGED <<ain, res>> /\ UNCHANGED cvars

\* apply() of the operation read, on the incoming expression
ApplyOp ==
    /\ epc = "built"
    /\ res' = OpItem_apply(node.val, ain.expr)
    /\ epc' = "evaluated"
    /\ UNCHANGED <<ain, node>> /\ UNCHANGED cvars

NextOp == DeserializeOp \/ ApplyOp
SpecOp == InitOp /\ [][NextOp]_vars

----------------------------------------------------------------------------
(* Spec: the resolution and execution of a configuration, one step of one
   call per action *)

ExprIdle == ain = None /\ node = None /\ res = None /\ epc = "idle"

SourceKinds ==
    {[src |-> "csv", present |-> TRUE], [src |-> "csv", present |-> FALSE],
     [src |-> "json", present |-> TRUE], [src |-> "json", present |-> FALSE],
     [src |-> "parquet", present |-> TRUE], [src |-> "parquet", present |-> FALSE],
     [src |-> "inline", present |-> TRUE],
     \* a Config source naming a configuration file that does not exist
     [src |-> "config", present |-> FALSE]}

Faults(depth, nL, nD, nE) ==
    {TransformFault(d, "loader", k) : d \in 0..depth, k \in 1..nL}
    \cup {TransformFault(d, "document", k) : d \in 0..depth, k \in 1..nD}
    \cup {ArityFault(d, "loader", k) : d \in 0..depth, k \in 1..nL}
    \cup {ArityFault(d, "document", k) : d \in 0..depth, k \in 1..nD}
    \cup {ExportFault(k) : k \in 1..nE}

\* the scenarios: every shape, with either any kind of innermost source and no faulty
\* step, or a CSV source and one faulty step, or a JSON source whose file is missing
\* and one faulty transform.  cb is what the program does with the root
\* configuration: "run" is main without --dump-schema (config.run()), "dump" is main
\* with --dump-schema, "load" is a caller of the library that loads it (what a Config
\* source does with the configuration it names), and "schema" is the dump-schema
\* subcommand, which reads no configuration.  Only a run reaches the exports, so only
\* a run has an export for its faulty step
Scenarios ==
    {[depth |-> d, nL |-> nL, nD |-> nD, nE |-> nE, cb |-> cb,
      src |-> v.src, present |-> v.present, fault |-> v.fault, xk |-> PlainCsv] :
        d \in 0..MaxDepth, nL \in 0..MaxTransforms, nD \in 0..MaxTransforms,
        nE \in 0..MaxExports, cb \in {"run", "load", "dump", "schema"},
        v \in [src : {"csv", "json", "parquet", "inline", "config"}, present : BOOLEAN,
               fault : {NoFault} \cup Faults(MaxDepth, MaxTransforms, MaxTransforms, MaxExports)]}

ScenarioOk(s) ==
    /\ [src |-> s.src, present |-> s.present] \in SourceKinds
    /\ s.fault \in {NoFault} \cup Faults(s.depth, s.nL, s.nD, s.nE)
    /\ s.fault # NoFault =>
          \/ s.src = "csv" /\ s.present
          \/ s.src = "json" /\ ~s.present /\ s.fault.at # "export"
    /\ s.cb # "run" => s.fault.at # "export"
    /\ s.cb = "schema" => (s.depth = 0 /\ s.nL = 0 /\ s.nD = 0 /\ s.nE = 0 /\ s.src = "inline")

\* main: match Cli::parse() { Cli::Run(args) => Config::from_path(
\* &args.config.canonicalize()?, |config| ...), Cli::DumpSchema { path } => ... }
Main(s) ==
    IF s.cb = "schema" THEN Frame("schema", Rel(<<>>), "schema", <<>>, NoConfig)
    ELSE Frame("from_path", Abs(ConfigFile(0)), s.cb, <<>>, NoConfig)

\* the program in thread 1
Init ==
    /\ ExprIdle
    /\ sc \in {s \in Scenarios : ScenarioOk(s)}
    /\ fs = InitFs(sc)
    /\ cwd = W
    /\ stack = [t \in Threads |->
                   IF t = 1
                   THEN <<Main(sc)>>
                   ELSE <<>>]
    /\ ret = [t \in Threads |-> None]
    /\ log = <<>>

\* Config::from_path: path.canonicalize()?, read_to_string(&canonical_path)?
\* the activations of from_path on thread t that have opened their document
Active(t) == SelectSeq(stack[t], LAMBDA f : f.fn = "from_path" /\ f.pc # "start")
\* those of them that opened a document an outer activation was still resolving
Reentered(t) ==
    {k \in 1..Len(Active(t)) : \E j \in 1..(k - 1) : Active(t)[j].doc = Active(t)[k].doc}

FromPath_enter(t) ==
    /\ At(t, "from_path", "start")
    /\ Cardinality(Reentered(t)) < MaxReentries
    /\ LET top == Top(t)
           c == canonicalize(cwd, top.path, fs)
           file == IF c.ok THEN read_to_string(sc, c.val) ELSE c
       IN  IF ~file.ok
           THEN /\ stack' = Popped(t)
                /\ ret' = Returned(t, file)
                /\ log' = log \o <<Enter(t, Join(cwd, top.path)),
                                   Exit(t, Join(cwd, top.path), cwd, file)>>
           ELSE /\ stack' = WithTop(t, [top EXCEPT !.pc = "save", !.doc = c.val,
                                                   !.file = file.val])
                /\ ret' = ret
                /\ log' = Append(log, Enter(t, c.val))
    /\ UNCHANGED <<sc, fs, cwd>> /\ UNCHANGED evars

\* a with_current_dir that takes the directory it switches to for the one to restore
WithCurrentDir_save_mut(t) ==
    /\ At(t, "from_path", "save")
    /\ stack' = WithTop(t, [Top(t) EXCEPT !.old_cd = parent(Top(t).doc), !.pc = "chdir"])
    /\ UNCHANGED <<sc, fs, cwd, ret, log>> /\ UNCHANGED evars

\* with_current_dir: let old_cd = std::env::current_dir()?
WithCurrentDir_save(t) ==
    /\ At(t, "from_path", "save")
    /\ stack' = WithTop(t, [Top(t) EXCEPT !.old_cd = cwd, !.pc = "chdir"])
    /\ UNCHANGED <<sc, fs, cwd, ret, log>> /\ UNCHANGED evars

\* with_current_dir: std::env::set_current_dir(path)? with path = canonical_path.parent()
WithCurrentDir_chdir(t) ==
    /\ At(t, "from_path", "chdir")
    /\ cwd' = parent(Top(t).doc)
    /\ stack' = WithTop(t, [Top(t) EXCEPT !.pc = "closure"])
    /\ UNCHANGED <<sc, fs, ret, log>> /\ UNCHANGED evars

\* the closure of Config::from_path from the Result src of the Loader's source on: the
\* rest of toml::from_str(&file)?, then func(config), called in directory dir
FromPath_func(t, lts, src, events, dir) ==
    LET top == Top(t)
        cfg == Config_assemble(top.file, lts, src)
    IN  /\ log' = log \o events \o (IF cfg.ok THEN <<Callback(t, top.doc, dir)>> ELSE <<>>)
        /\ cwd' = IF cfg.ok THEN dir ELSE cwd
        /\ IF ~cfg.ok
           THEN /\ stack' = WithTop(t, [top EXCEPT !.pc = "restore", !.found = <<>>])
                /\ ret' = Returned(t, cfg)
           ELSE /\ stack' = WithCall(t, [top EXCEPT !.pc = "restore", !.found = <<>>],
                                     Frame(top.cb, top.path, top.cb, top.doc, cfg.val))
                /\ ret' = ret

\* the closure up to the first look at the source's path: the loader's transforms, then
\* for globbed paths the glob, whose matches are canonicalized in a step of their own,
\* and for any other source the whole of it, with func called in directory dir
FromPath_parse(t, dir) ==
    LET top == Top(t)
        raw == top.file.source
        lts == Transforms_deserialize(top.file.ltransforms, 1, <<>>)
        paths == SourceItem_resolves(raw)
        looked == [k \in 1..Len(paths) |-> Resolve(top.doc, paths[k], cwd)]
    IN  IF ~lts.ok
        THEN /\ stack' = WithTop(t, [top EXCEPT !.pc = "restore"])
             /\ ret' = Returned(t, lts)
             /\ UNCHANGED <<log, cwd>>
        ELSE IF Globbed(raw) /\ Glob(raw.path, cwd, fs) # <<>>
        THEN /\ stack' = WithTop(t, [top EXCEPT !.pc = "canonicalize",
                                                !.found = Glob(raw.path, cwd, fs)])
             /\ log' = log \o looked
             /\ UNCHANGED <<ret, cwd>>
        ELSE FromPath_func(t, lts.val, SourceItem_deserialize(raw, cwd, fs), looked, dir)

\* a from_path that parses inside the directory of the file and calls func back in the
\* directory it was called in
FromPath_closure_mut(t) ==
    /\ At(t, "from_path", "closure")
    /\ FromPath_parse(t, Top(t).old_cd)
    /\ UNCHANGED <<sc, fs>> /\ UNCHANGED evars

\* the closure of Config::from_path: let config = toml::from_str(&file)?; func(config)
FromPath_closure(t) ==
    /\ At(t, "from_path", "closure")
    /\ FromPath_parse(t, cwd)
    /\ UNCHANGED <<sc, fs>> /\ UNCHANGED evars

\* the closure of Config::from_path, CanonicalPaths::try_from after glob has answered:
\* p.canonicalize() of the matches in what is the current directory by now, then the
\* rest of the document and func(config)
FromPath_canonicalize(t) ==
    /\ At(t, "from_path", "canonicalize")
    /\ LET top == Top(t)
           raw == top.file.source
           lts == Transforms_deserialize(top.file.ltransforms, 1, <<>>)
       IN  FromPath_func(t, lts.val, SourceItem_collect(raw, top.found, cwd, fs),
                         [k \in 1..Len(top.found) |-> Resolve(top.doc, top.found[k], cwd)],
                         cwd)
    /\ UNCHANGED <<sc, fs>> /\ UNCHANGED evars

\* a with_current_dir that restores the directory only when the closure succeeded
WithCurrentDir_restore_mut(t) ==
    /\ At(t, "from_path", "restore")
    /\ ret[t] # None
    /\ cwd' = IF ret[t].ok THEN Top(t).old_cd ELSE cwd
    /\ stack' = Popped(t)
    /\ log' = Append(log, Exit(t, Top(t).doc, cwd', ret[t]))
    /\ UNCHANGED <<sc, fs, ret>> /\ UNCHANGED evars

\* with_current_dir: on Ok and on Err alike, std::env::set_current_dir(old_cd)?, then
\* the closure's Result is returned
WithCurrentDir_restore(t) ==
    /\ At(t, "from_path", "restore")
    /\ ret[t] # None
    /\ cwd' = Top(t).old_cd
    /\ stack' = Popped(t)
    /\ log' = Append(log, Exit(t, Top(t).doc, cwd', ret[t]))
    /\ UNCHANGED <<sc, fs, ret>> /\ UNCHANGED evars

\* a run that loads without looking at the exports
Config_run_mut(t) ==
    /\ At(t, "run", "start")
    /\ stack' = WithCall(t, [Top(t) EXCEPT !.pc = "loaded"],
                         Frame("load", Top(t).path, Top(t).cb, Top(t).doc, Top(t).cfg))
    /\ log' = Append(log, Called(t, "run", Top(t).doc))
    /\ UNCHANGED <<sc, fs, cwd, ret>> /\ UNCHANGED evars

\* Config::run: NoExports when exports is empty, else let lf = self.load()?
Config_run(t) ==
    /\ At(t, "run", "start")
    /\ LET top == Top(t)
       IN  IF top.cfg.exports = <<>>
           THEN /\ stack' = Popped(t)
                /\ ret' = Returned(t, Err("NoExports"))
           ELSE /\ stack' = WithCall(t, [top EXCEPT !.pc = "loaded"],
                                     Frame("load", top.path, top.cb, top.doc, top.cfg))
                /\ ret' = ret
    /\ log' = Append(log, Called(t, "run", Top(t).doc))
    /\ UNCHANGED <<sc, fs, cwd>> /\ UNCHANGED evars

\* Config::run: self.load()? has returned
Config_run_loaded(t) ==
    /\ At(t, "run", "loaded")
    /\ ret[t] # None
    /\ IF ~ret[t].ok
       THEN stack' = Popped(t) /\ ret' = ret
       ELSE IF Top(t).cfg.exports = <<>>
       THEN stack' = Popped(t) /\ ret' = Returned(t, Ok(<<>>))
       ELSE /\ stack' = WithTop(t, [Top(t) EXCEPT !.lf = ret[t].val, !.pc = "export", !.i = 1])
            /\ ret' = Returned(t, None)
    /\ log' = Append(log, Loaded(t, Top(t).doc, ret[t]))
    /\ UNCHANGED <<sc, fs, cwd>> /\ UNCHANGED evars

\* a run whose loop goes on after a failed export
Config_run_export_mut(t) ==
    /\ At(t, "run", "export")
    /\ \E now \in Clock, partial \in BOOLEAN :
       LET top == Top(t)
           out == ExportItem_export(top.cfg.exports[top.i], top.lf, cwd, fs, now, partial)
           later == IF out.ran THEN SelectSeq(top.lf, IsUnlocated) ELSE <<>>
           scans == IF out.ran /\ out.r.ok THEN SelectSeq(top.lf, IsScan) ELSE <<>>
       IN  /\ fs' = out.fs
           /\ log' = log
                \o [k \in 1..Len(later) |-> Resolve(later[k].doc, later[k].path, cwd)]
                \o [k \in 1..Len(scans) |-> Read(top.doc, scans[k].type, "export")]
                \o <<Exported(t, top.doc, top.i, top.lf, out.r, now, out.fs.files \ fs.files)>>
           /\ IF top.i = Len(top.cfg.exports)
              THEN stack' = Popped(t) /\ ret' = Returned(t, out.r)
              ELSE stack' = WithTop(t, [top EXCEPT !.i = top.i + 1]) /\ ret' = ret
    /\ UNCHANGED <<sc, cwd>> /\ UNCHANGED evars

\* Config::run: for e in self.exports.iter() { e.export(lf.clone())?; } Ok(())
Config_run_export(t) ==
    /\ At(t, "run", "export")
    /\ \E now \in Clock, partial \in BOOLEAN :
       LET top == Top(t)
           out == ExportItem_export(top.cfg.exports[top.i], top.lf, cwd, fs, now, partial)
           later == IF out.ran THEN SelectSeq(top.lf, IsUnlocated) ELSE <<>>
           scans == IF out.ran /\ out.r.ok THEN SelectSeq(top.lf, IsScan) ELSE <<>>
       IN  /\ fs' = out.fs
           /\ log' = log
                \o [k \in 1..Len(later) |-> Resolve(later[k].doc, later[k].path, cwd)]
                \o [k \in 1..Len(scans) |-> Read(top.doc, scans[k].type, "export")]
                \o <<Exported(t, top.doc, top.i, top.lf, out.r, now, out.fs.files \ fs.files)>>
           /\ IF ~out.r.ok \/ top.i = Len(top.cfg.exports)
              THEN stack' = Popped(t) /\ ret' = Returned(t, out.r)
              ELSE stack' = WithTop(t, [top EXCEPT !.i = top.i + 1]) /\ ret' = ret
    /\ UNCHANGED <<sc, cwd>> /\ UNCHANGED evars

\* Config::load: let mut lf = self.source.load()?
Config_load(t) ==
    /\ At(t, "load", "start")
    /\ stack' = WithCall(t, [Top(t) EXCEPT !.pc = "source"],
                         Frame("loader", Top(t).path, Top(t).cb, Top(t).doc, Top(t).cfg.source))
    /\ log' = Append(log, Called(t, "load", Top(t).doc))
    /\ UNCHANGED <<sc, fs, cwd, ret>> /\ UNCHANGED evars

\* a loop over n transforms begins with the Result r of the source: an error, or an
\* empty loop, returns at once
AfterSource(t, r, n) ==
    IF ~r.ok \/ n = 0
    THEN stack' = Popped(t) /\ ret' = Returned(t, r)
    ELSE /\ stack' = WithTop(t, [Top(t) EXCEPT !.lf = r.val, !.pc = "transforms", !.i = 1])
         /\ ret' = Returned(t, None)

\* a loop that goes on to the next transform after a failure, with the plan it had
AfterTransform_mut(t, r, n) ==
    IF Top(t).i = n
    THEN stack' = Popped(t) /\ ret' = Returned(t, r)
    ELSE /\ stack' = WithTop(t, [Top(t) EXCEPT !.lf = IF r.ok THEN r.val ELSE @, !.i = @ + 1])
         /\ ret' = ret

\* one turn of for t in transforms { lf = t.transform(lf)?; } with Result r, then Ok(lf)
AfterTransform(t, r, n) ==
    IF ~r.ok \/ Top(t).i = n
    THEN stack' = Popped(t) /\ ret' = Returned(t, r)
    ELSE stack' = WithTop(t, [Top(t) EXCEPT !.lf = r.val, !.i = @ + 1]) /\ ret' = ret

\* Config::load: self.source.load()? has returned
Config_load_source(t) ==
    /\ At(t, "load", "source")
    /\ ret[t] # None
    /\ AfterSource(t, ret[t], Len(Top(t).cfg.transforms))
    /\ UNCHANGED <<sc, fs, cwd, log>> /\ UNCHANGED evars

\* a load that takes the document's transforms last to first
Config_load_transform_mut(t) ==
    /\ At(t, "load", "transforms")
    /\ LET top == Top(t)
           n == Len(top.cfg.transforms)
           r == TransformItem_transform(top.cfg.transforms[n + 1 - top.i], top.lf, cwd, fs, top.doc)
       IN  /\ log' = Append(log, Transformed(t, top.doc, "document", n + 1 - top.i, r))
           /\ AfterTransform(t, r, n)
    /\ UNCHANGED <<sc, fs, cwd>> /\ UNCHANGED evars

\* Config::load: for t in self.transforms.iter() { lf = t.transform(lf)?; }
Config_load_transform(t) ==
    /\ At(t, "load", "transforms")
    /\ LET top == Top(t)
           r == TransformItem_transform(top.cfg.transforms[top.i], top.lf, cwd, fs, top.doc)
       IN  /\ log' = Append(log, Transformed(t, top.doc, "document", top.i, r))
           /\ AfterTransform(t, r, Len(top.cfg.transforms))
    /\ UNCHANGED <<sc, fs, cwd>> /\ UNCHANGED evars

\* a Config source that runs the configuration it names
ConfigSource_load_mut(self, doc) == Frame("from_path", Abs(self.path), "run", doc, NoConfig)

\* impl Source for ConfigSource: Config::from_path(&self.path, |config| config.load())
ConfigSource_load(self, doc) == Frame("from_path", Abs(self.path), "load", doc, NoConfig)

\* a loader that takes a Config source for a scan to be run later, and goes on to its
\* own transforms before the nested configuration was loaded
Loader_load_mut(t) ==
    /\ At(t, "loader", "start")
    /\ LET top == Top(t)
           src == top.cfg.source
       IN  \E choice \in BOOLEAN :
               LET r == IF src.type = "config" THEN Ok(ScanLater("config", src.path, top.doc))
                        ELSE SourceItem_load(src, choice, cwd, fs, top.doc)
                   rd == RowsRead(r)
               IN  /\ AfterSource(t, r, Len(top.cfg.transforms))
                   /\ log' = log \o <<Called(t, "source", top.doc)>>
                           \o (IF src.type = "parquet" /\ choice
                               THEN <<Resolve(top.doc, src.paths, cwd)>> ELSE <<>>)
                           \o [k \in 1..Len(rd) |-> Read(top.doc, rd[k], "load")]
    /\ UNCHANGED <<sc, fs, cwd>> /\ UNCHANGED evars

\* Loader::load: let mut lf = self.source.load()?
Loader_load(t) ==
    /\ At(t, "loader", "start")
    /\ LET top == Top(t)
           src == top.cfg.source
       IN  IF src.type = "config"
           THEN /\ stack' = WithCall(t, [top EXCEPT !.pc = "source"],
                                     ConfigSource_load(src, top.doc))
                /\ ret' = ret
                /\ log' = Append(log, Called(t, "source", top.doc))
           ELSE \E choice \in BOOLEAN :
                    LET r == SourceItem_load(src, choice, cwd, fs, top.doc)
                        rd == RowsRead(r)
                    IN  /\ AfterSource(t, r, Len(top.cfg.transforms))
                        /\ log' = log \o <<Called(t, "source", top.doc)>>
                                \o (IF src.type = "parquet" /\ choice
                                    THEN <<Resolve(top.doc, src.paths, cwd)>> ELSE <<>>)
                                \o [k \in 1..Len(rd) |-> Read(top.doc, rd[k], "load")]
    /\ UNCHANGED <<sc, fs, cwd>> /\ UNCHANGED evars

\* Loader::load: the Config source's from_path has returned
Loader_load_source(t) ==
    /\ At(t, "loader", "source")
    /\ ret[t] # None
    /\ AfterSource(t, ret[t], Len(Top(t).cfg.transforms))
    /\ UNCHANGED <<sc, fs, cwd, log>> /\ UNCHANGED evars

\* Loader::load: for transform in self.transforms.iter() { lf = transform.transform(lf)?; }
Loader_load_transform(t) ==
    /\ At(t, "loader", "transforms")
    /\ LET top == Top(t)
           r == TransformItem_transform(top.cfg.transforms[top.i], top.lf, cwd, fs, top.doc)
       IN  /\ log' = Append(log, Transformed(t, top.doc, "loader", top.i, r))
           /\ AfterTransform(t, r, Len(top.cfg.transforms))
    /\ UNCHANGED <<sc, fs, cwd>> /\ UNCHANGED evars

----------------------------------------------------------------------------
(* main.rs: the closure main hands to from_path when --dump-schema is given, and the
   dump-schema subcommand *)

\* the paths a schema is dumped to: beside the configuration, below a regular file,
\* in a directory that does not exist, and at an absolute path
DumpPaths ==
    {Rel(<<"schema.toml">>), Rel(<<"blocked", "schema.toml">>),
     Rel(<<"nodir", "schema.toml">>), Abs(W \o <<"schema.toml">>)}

\* std::fs::File::create(path) in directory dir: the file system afterwards
File_create(path, dir, f) ==
    LET q == Join(dir, path)
    IN  IF Prefixes(parent(q)) \cap f.files # {} THEN Err("Not a directory")
        ELSE IF parent(q) \notin f.dirs THEN Err("No such file or directory")
        ELSE IF q \in f.dirs THEN Err("Is a directory")
        ELSE Ok([f EXCEPT !.files = @ \cup {q}])

\* LazyFrame::collect_schema in directory dir: the scans not yet located are looked up;
\* what the engine answers for a scan of no file is the engine's choice
collect_schema(lf, dir, f, refuse) ==
    IF refuse /\ \E k \in 1..Len(lf) : IsScan(lf[k]) /\ lf[k].located /\ lf[k].files = <<>>
    THEN Err("no source files")
    ELSE Materialize(lf, dir, f)

\* what the closure writes: for a Csv, Json, JsonLine or Parquet source the document of
\* Config { source, exports: default, transforms: default } with the schema set on the
\* source, for any other source the schema alone
DumpText(cfg, lf) ==
    IF cfg.source.source.type \in {"csv", "json", "json_line", "parquet"}
    THEN [kind |-> "config", source |-> cfg.source, schema |-> lf,
          transforms |-> <<>>, exports |-> <<>>]
    ELSE [kind |-> "schema", schema |-> lf]

Dumped(t, doc, path, text) ==
    [ev |-> "dumped", t |-> t, doc |-> doc, path |-> path, text |-> text]

\* the closure with --dump-schema: config.load()?
Main_dump(t) ==
    /\ At(t, "dump", "start")
    /\ stack' = WithCall(t, [Top(t) EXCEPT !.pc = "loaded"],
                         Frame("load", Top(t).path, Top(t).cb, Top(t).doc, Top(t).cfg))
    /\ log' = Append(log, Called(t, "dump", Top(t).doc))
    /\ UNCHANGED <<sc, fs, cwd, ret>> /\ UNCHANGED evars

\* the closure with --dump-schema: config.load()? has returned; .collect_schema()?
Main_dump_loaded(t) ==
    /\ At(t, "dump", "loaded")
    /\ ret[t] # None
    /\ IF ~ret[t].ok
       THEN stack' = Popped(t) /\ ret' = ret /\ log' = Append(log, Loaded(t, Top(t).doc, ret[t]))
       ELSE \E refuse \in BOOLEAN :
                LET lf == ret[t].val
                    schema == collect_schema(lf, cwd, fs, refuse)
                    later == SelectSeq(lf, IsUnlocated)
                IN  /\ log' = log \o <<Loaded(t, Top(t).doc, ret[t])>>
                            \o [k \in 1..Len(later) |-> Resolve(later[k].doc, later[k].path, cwd)]
                    /\ IF ~schema.ok
                       THEN stack' = Popped(t) /\ ret' = Returned(t, schema)
                       ELSE /\ stack' = WithTop(t, [Top(t) EXCEPT !.lf = lf, !.pc = "write"])
                            /\ ret' = Returned(t, None)
    /\ UNCHANGED <<sc, fs, cwd>> /\ UNCHANGED evars

\* the closure with --dump-schema: File::create(path)?, the document written and
\* flushed, Ok(())
Main_dump_write(t) ==
    /\ At(t, "dump", "write")
    /\ \E path \in DumpPaths :
           LET top == Top(t)
               made == File_create(path, cwd, fs)
           IN  /\ stack' = Popped(t)
               /\ IF ~made.ok
                  THEN fs' = fs /\ ret' = Returned(t, made) /\ log' = log
                  ELSE /\ fs' = made.val
                       /\ ret' = Returned(t, Ok(<<>>))
                       /\ log' = Append(log, Dumped(t, top.doc, Join(cwd, path),
                                                    DumpText(top.cfg, top.lf)))
    /\ UNCHANGED <<sc, cwd>> /\ UNCHANGED evars

\* Cli::DumpSchema { path }: schema_for!(Config), File::create(path)?, the JSON schema
\* written to it
Main_schema(t) ==
    /\ At(t, "schema", "start")
    /\ \E path \in DumpPaths :
           LET made == File_create(path, cwd, fs)
           IN  /\ stack' = Popped(t)
               /\ IF ~made.ok
                  THEN fs' = fs /\ ret' = Returned(t, made) /\ log' = log
                  ELSE /\ fs' = made.val
                       /\ ret' = Returned(t, Ok(<<>>))
                       /\ log' = Append(log, Dumped(t, <<>>, Join(cwd, path),
                                                    [kind |-> "json_schema"]))
    /\ UNCHANGED <<sc, cwd>> /\ UNCHANGED evars

Next ==
    \E t \in Threads :
        \/ FromPath_enter(t)
        \/ WithCurrentDir_save(t)
        \/ WithCurrentDir_chdir(t)
        \/ FromPath_closure(t)
        \/ FromPath_canonicalize(t)
        \/ WithCurrentDir_restore(t)
        \/ Config_run(t)
        \/ Config_run_loaded(t)
        \/ Config_run_export(t)
        \/ Config_load(t)
        \/ Config_load_source(t)
        \/ Config_load_transform(t)
        \/ Loader_load(t)
        \/ Loader_load_source(t)
        \/ Loader_load_transform(t)
        \/ Main_dump(t)
        \/ Main_dump_loaded(t)
        \/ Main_dump_write(t)
        \/ Main_schema(t)

Spec == Init /\ [][Next]_vars

----------------------------------------------------------------------------
(* Claims about the logical combinators *)

\* the Results of evaluating each operand of the input list, in input order
OperandResults == [i \in 1..Len(ain.value) |-> Node_expr(ain.lvl, ain.value[i])]
FirstFailure(rs) == CHOOSE i \in 1..Len(rs) : ~rs[i].ok /\ \A j \in 1..(i - 1) : rs[j].ok

RECURSIVE LeftFold(_, _, _)
\* ((x1 op x2) op x3) ... op xn for n >= 1, op the engine's logical and / or
LeftFold(kind, xs, n) ==
    IF n = 1 THEN xs[1]
    ELSE IF kind = "and" THEN Expr_and(LeftFold(kind, xs, n - 1), xs[n])
         ELSE Expr_or(LeftFold(kind, xs, n - 1), xs[n])

\* C1: an And/Or built by the validating constructor from a list of length 0 or 1 is
\* rejected, at either level, and is never evaluated; from a list of length >= 2 the
\* constructor succeeds and the node holds the list.
C1_ArityChecked ==
    (epc # "raw" /\ node.via = "try_from") =>
        /\ Len(ain.value) < 2 => (~node.r.ok /\ epc = "rejected" /\ res = None)
        /\ Len(ain.value) >= 2 => (node.r.ok /\ node.r.val.conditions = ain.value)

C1_Witness ==
    /\ epc = "rejected" /\ Len(ain.value) = 1 /\ ain.lvl = "condition" /\ ain.kind = "or"

\* C2: a validated And (Or) of n >= 2 operands evaluates to the left fold of the
\* operands' expressions in input order under logical and (or), or to the error of the
\* first operand that fails; the And of two Match nodes is true exactly on the rows
\* where both matches are true.
C2_LeftFold ==
    (epc = "evaluated" /\ node.via = "try_from") =>
        LET rs == OperandResults
            n == Len(ain.value)
        IN  /\ n >= 2
            /\ IF \A i \in 1..n : rs[i].ok
               THEN res = Ok(LeftFold(ain.kind, [i \in 1..n |-> rs[i].val], n))
               ELSE res = rs[FirstFailure(rs)]
            /\ (ain = [lvl |-> "expression", kind |-> "and", value |-> <<M1, M2>>]) =>
                  \A row \in Rows :
                      EvalRow(res.val, row) = "true" <=>
                          (<<"foo", row.a>> \in RegexFinds /\ <<"bar", row.b>> \in RegexFinds)

C2_Witness ==
    /\ epc = "evaluated" /\ node.via = "try_from" /\ res.ok
    /\ ain.kind = "or" /\ Len(ain.value) = 3 /\ ain.value[1] # ain.value[3]

----------------------------------------------------------------------------
(* Claims about chains and chained operations *)

RECURSIVE NestedApply(_, _, _)
\* on.apply(... o2.apply(o1.apply(evaluate(base))) ...), an error passing through
NestedApply(base, ops, n) ==
    IF n = 0 THEN ExpressionItem_expr(base)
    ELSE LET inner == NestedApply(base, ops, n - 1)
         IN  IF ~inner.ok THEN inner ELSE OpItem_apply(ops[n], inner.val)

\* C3: evaluating a chain applies its ops in list order, each to the previous result,
\* and a chain without ops evaluates to its base.
C3_ChainOrder ==
    epc = "evaluated" =>
        /\ res = NestedApply(ain.expr, ain.ops, Len(ain.ops))
        /\ ain.ops = <<>> => res = ExpressionItem_expr(ain.expr)

C3_Witness ==
    /\ epc = "evaluated" /\ res.ok /\ Len(ain.ops) = 2
    /\ ain.ops[1].type = "contains" /\ ain.ops[2].type = "alias"

RECURSIVE FoldChains(_, _, _, _)
\* e op k1 op ... op kn over the first n chains, an error of a chain passing through
FoldChains(kind, e, chains, n) ==
    IF n = 0 THEN Ok(e)
    ELSE LET acc == FoldChains(kind, e, chains, n - 1)
             k == ExpressionChain_expr(chains[n])
         IN  IF ~acc.ok THEN acc
             ELSE IF ~k.ok THEN k
             ELSE Ok(IF kind = "and" THEN Expr_and(acc.val, k.val) ELSE Expr_or(acc.val, k.val))

\* C4: the chained Or applied to e yields e OR k1 OR ... OR kn, as the chained And
\* yields e AND k1 AND ... AND kn.
C4_OrFoldsWithOr ==
    (epc = "evaluated" /\ ain.op.type \in {"or", "and"}) =>
        res = FoldChains(ain.op.type, ain.expr, ain.op.chains, Len(ain.op.chains))

----------------------------------------------------------------------------
(* Claims about the resolution and execution of configurations *)

LogIdx == 1..Len(log)
RootFile == ConfigFile(0)
IsExportEvent(e) == e.ev = "export"
ExportEvents == SelectSeq(log, IsExportEvent)
\* the from_path frames of thread 1 that have switched the directory and not yet restored it
Switched == SelectSeq(stack[1], LAMBDA f : f.fn = "from_path" /\ f.pc \in {"closure", "canonicalize", "restore"})

\* C5: every relative path of a nested document is resolved against the directory of
\* the nested document's own file, at every nesting depth.
C5_NestedPathsOwnDir ==
    \A k \in LogIdx :
        (log[k].ev = "resolve" /\ log[k].doc # RootFile /\ ~log[k].path.abs) =>
            log[k].base = parent(log[k].doc)

\* the entry of the from_path call whose return is log[j]
EnterOf(j) ==
    CHOOSE i \in 1..(j - 1) :
        /\ log[i].ev = "enter" /\ log[i].t = log[j].t /\ log[i].depth = log[j].depth
        /\ \A h \in (i + 1)..(j - 1) :
              ~(log[h].ev = "enter" /\ log[h].t = log[j].t /\ log[h].depth = log[j].depth)

\* C6: single-threaded, when a from_path returns, with Ok or with Err, the current
\* directory is the one it was entered with; the directories are switched and restored
\* in LIFO order, and after the outermost from_path has returned the current directory
\* is the initial one.
C6_CwdRestored ==
    /\ \A j \in LogIdx : log[j].ev = "exit" => log[j].cwd = log[EnterOf(j)].cwd
    /\ cwd = IF Switched = <<>> THEN W ELSE parent(Switched[Len(Switched)].doc)
    /\ \A i \in 1..Len(Switched) :
          Switched[i].old_cd = IF i = 1 THEN W ELSE parent(Switched[i - 1].doc)
    /\ stack[1] = <<>> => cwd = W

C6_Witness ==
    /\ stack[1] = <<>> /\ sc.depth = 2 /\ cwd = W
    /\ \E j \in LogIdx :
          /\ log[j].ev = "exit" /\ ~log[j].ok /\ log[j].path = ConfigFile(2)
          /\ log[j].cwd = ConfigDir(1)

\* C7: run() of a configuration without exports returns NoExports, loads nothing
\* (no source is loaded, no transform is applied) and writes nothing.
C7_NoExportsNoWork ==
    \A k \in LogIdx :
        (log[k].ev = "run" /\ RawDoc(sc, 0).exports = <<>> /\ log[k].doc = RootFile) =>
            /\ ret[1] = Err("NoExports")
            /\ \A h \in (k + 1)..Len(log) : log[h].ev = "exit"
            /\ \A i \in 1..Len(stack[1]) : stack[1][i].fn = "from_path"
            /\ fs = InitFs(sc)

C7_Witness ==
    /\ sc.cb = "run" /\ sc.nE = 0 /\ sc.depth = 1 /\ sc.nL = 1 /\ sc.nD = 1
    /\ stack[1] = <<>> /\ ret[1] = Err("NoExports")
    /\ \E k \in LogIdx : log[k].ev = "run"

\* C8: load() never fails with NoExports and invokes no export: a configuration
\* without exports loads, and a nested configuration is only load()ed, so that no export
\* of a nested configuration is executed, at any depth.
C8_LoadNeverExports ==
    /\ \A k \in LogIdx :
          log[k].ev \in {"export", "run"} => (log[k].doc = RootFile /\ sc.cb = "run")
    /\ \A i \in 1..Len(stack[1]) : stack[1][i].fn = "run" => i = 2
    /\ ret[1] = Err("NoExports") => (sc.cb = "run" /\ sc.nE = 0)
    /\ sc.cb = "load" => fs = InitFs(sc)
    /\ \A f \in fs.files \ InitFs(sc).files :
          \/ sc.cb = "run" /\ parent(parent(f)) = ConfigDir(0)
          \/ \E k \in LogIdx : log[k].ev = "dumped" /\ log[k].path = f

C8_Witness ==
    /\ sc.cb = "load" /\ sc.nE = 0 /\ sc.depth = 2 /\ sc.nL = 1 /\ sc.nD = 1
    /\ stack[1] = <<>> /\ ret[1].ok
    /\ \A d \in 0..2 : \E k \in LogIdx : log[k].ev = "load" /\ log[k].doc = ConfigFile(d)

\* the file export k of the root configuration writes
Written(k) == ConfigDir(0) \o <<"out", ExportNames[k] \o ".csv">>

\* C9: run() of a configuration with exports loads once, then invokes the exports one
\* at a time in document order, each on the plan that load returned; when export i
\* fails run() returns its error, no later export is invoked and what the earlier
\* exports wrote stays.
C9_ExportsInOrder ==
    LET ex == ExportEvents
        loads == {k \in LogIdx : log[k].ev = "load" /\ log[k].doc = RootFile}
        loaded == {k \in LogIdx : log[k].ev = "loaded"}
    IN  /\ Cardinality(loads) <= 1
        /\ ex # <<>> => (Cardinality(loads) = 1 /\ Cardinality(loaded) = 1)
        /\ \A k \in LogIdx : log[k].ev = "export" =>
              \E h \in loaded : h < k /\ log[h].r = Ok(log[k].lf)
        /\ \A j \in 1..Len(ex) : ex[j].idx = j
        /\ \A j \in 1..(Len(ex) - 1) : ex[j].ok
        /\ \A j \in 1..Len(ex) : ex[j].ok => Written(j) \in fs.files
        /\ (stack[1] = <<>> /\ ex # <<>>) =>
              /\ ret[1] = ex[Len(ex)].r
              /\ ret[1].ok => Len(ex) = sc.nE

C9_Witness ==
    /\ stack[1] = <<>> /\ sc.nE = 2 /\ sc.fault = ExportFault(2)
    /\ Len(ExportEvents) = 2 /\ ExportEvents[1].ok /\ ~ExportEvents[2].ok
    /\ Written(1) \in fs.files /\ ~ret[1].ok

\* the source and transform steps of document d, in the order they were taken
StepsOf(d) ==
    LET evs == SelectSeq(log, LAMBDA e : e.ev \in {"source", "transform"} /\ e.doc = ConfigFile(d))
    IN  [k \in 1..Len(evs) |->
            IF evs[k].ev = "source" THEN <<"source", 0>> ELSE <<evs[k].stage, evs[k].idx>>]
\* the steps load() of a document is to take
StepsDue == <<<<"source", 0>>>> \o [k \in 1..sc.nL |-> <<"loader", k>>]
                \o [k \in 1..sc.nD |-> <<"document", k>>]
\* the root configuration has returned and every load() in it succeeded
LoadedOk == stack[1] = <<>> /\ ret[1] # None /\ (ret[1].ok \/ sc.fault.at = "export")

\* C10: load() takes the source's load, then the loader's transforms in document
\* order, then the document's transforms in document order; no document transform
\* comes before a loader transform.
C10_TwoStageOrder ==
    \A d \in 0..sc.depth :
        LET steps == StepsOf(d)
        IN  /\ Len(steps) <= Len(StepsDue)
            /\ steps = SubSeq(StepsDue, 1, Len(steps))
            /\ (LoadedOk /\ (sc.cb \in {"load", "dump"} \/ sc.nE > 0)) => steps = StepsDue

C10_Witness ==
    /\ sc.depth = 1 /\ sc.nL = 2 /\ sc.nD = 2 /\ stack[1] = <<>> /\ ret[1].ok
    /\ StepsOf(0) = StepsDue /\ StepsOf(1) = StepsDue

----------------------------------------------------------------------------
(* Claims about deserialization *)

\* the frames of thread 1 that hold a parsed configuration
Parsed == SelectSeq(stack[1], LAMBDA f : f.fn \in {"run", "load"})
\* the source of the document at path doc, as written
WrittenSource(doc) == read_to_string(sc, doc).val.source

\* C11: a document whose source names a path that does not exist at parse time does
\* not parse: whenever a parsed configuration exists, the path its source names
\* existed.
C11_ParsedPathsExist ==
    \A i \in 1..Len(Parsed) :
        LET raw == WrittenSource(Parsed[i].doc)
        IN  raw.type # "inline" => Join(parent(Parsed[i].doc), raw.path) \in InitFs(sc).files

----------------------------------------------------------------------------
(* serde: the serialized form of a SourceItem, and its re-parsing *)

\* derive(Serialize) for SourceItem: CanonicalPaths is a newtype of Arc<Vec<PathBuf>> and
\* is written as the sequence of its paths, CanonicalPath a newtype of PathBuf and is
\* written as that path, the paths of a Parquet source as they are held
SourceItem_serialize(self) ==
    CASE self.type \in {"csv", "json_line"} ->
            SVariant(self.type,
                     SMap([path |-> SSeq([i \in 1..Len(self.path) |-> SStr(Abs(self.path[i]))])]))
      [] self.type \in {"json", "config"} ->
            SVariant(self.type, SMap([path |-> SStr(Abs(self.path))]))
      [] self.type = "parquet" -> SVariant("parquet", SMap([paths |-> SStr(self.paths)]))

\* Deserialize for PathBuf: a string
PathBuf_deserialize(ser) ==
    IF ser.k = "str" THEN Ok(ser.v) ELSE InvalidType("str")

\* derive(Deserialize) for SourceItem from a serialized form, in directory dir
SourceItem_reparse(ser, dir, f) ==
    IF ser.tag = "parquet" THEN Ok([type |-> "parquet", paths |-> ser.body.fields.paths.v])
    ELSE LET p == PathBuf_deserialize(ser.body.fields.path)
         IN  IF ~p.ok THEN p
             ELSE SourceItem_deserialize([type |-> ser.tag, path |-> p.val], dir, f)

\* the scenario whose files the sources of the round trip name
RoundScenario(src) == [depth |-> 1, src |-> src, present |-> TRUE]
\* constructed values: validated And / Or nodes and their operands, chains under a Not,
\* and the sources parsed from the documents of a scenario
RoundExpressions ==
    ExprOperands
    \cup {Not(ExpressionChain(M2, <<Alias("x")>>)), Not(K3)}
    \cup {And_try_from(v).val : v \in {w \in SeqsUpTo(ExprOperands, MaxOperands) : Len(w) >= 2}}
    \cup {Or_try_from(v).val : v \in {w \in SeqsUpTo(ExprOperands, MaxOperands) : Len(w) >= 2}}
RoundInputs ==
    [kind : {"expression"}, value : RoundExpressions, dir : {W},
     f : {[files |-> {}, dirs |-> {}]}]
    \cup
    {[kind |-> "source",
      value |-> SourceItem_deserialize(RawSource(RoundScenario(src), d), ConfigDir(d),
                                       InitFs(RoundScenario(src))).val,
      dir |-> ConfigDir(d), f |-> InitFs(RoundScenario(src))] :
        src \in {"csv", "json", "parquet"}, d \in 0..1}

\* what a value evaluates to: the engine expression of an expression, the paths a source reads
Meaning(kind, v) == IF kind = "expression" THEN ExpressionItem_expr(v) ELSE Ok(v)

InitRound ==
    /\ ConfigIdle
    /\ ain \in RoundInputs
    /\ node = None
    /\ res = None
    /\ epc = "built"

\* toml::to_string_pretty / serde_json::to_string of a constructed value
SerializeValue ==
    /\ epc = "built"
    /\ node' = IF ain.kind = "expression" THEN ExpressionItem_serialize(ain.value)
               ELSE SourceItem_serialize(ain.value)
    /\ epc' = "serialized"
    /\ UNCHANGED <<ain, res>> /\ UNCHANGED cvars

\* the serialized form parsed again
Reparse ==
    /\ epc = "serialized"
    /\ res' = IF ain.kind = "expression" THEN ExpressionItem_deserialize(node)
              ELSE SourceItem_reparse(node, ain.dir, ain.f)
    /\ epc' = "reparsed"
    /\ UNCHANGED <<ain, node>> /\ UNCHANGED cvars

NextRound == SerializeValue \/ Reparse
SpecRound == InitRound /\ [][NextRound]_vars

\* C12: serializing a constructed value and parsing the result succeeds and yields a
\* value that evaluates as the original does, And / Or nodes and sources with
\* canonicalized paths included.
C12_RoundTrip ==
    epc = "reparsed" =>
        /\ res.ok
        /\ Meaning(ain.kind, res.val) = Meaning(ain.kind, ain.value)

----------------------------------------------------------------------------
(* SpecRace: two threads of one process resolve a configuration each.  Thread 1
   runs the root configuration, which names the nested one as its source and
   has no exports; thread 2 loads the nested configuration.  The current
   directory is the one variable cwd of the process. *)

RaceScenarios ==
    {s \in Scenarios : /\ ScenarioOk(s)
                       /\ s.depth = 1 /\ s.nL = 0 /\ s.nD = 0 /\ s.nE = 0
                       /\ s.cb = "run" /\ s.src # "config"}

InitRace ==
    /\ ExprIdle
    /\ sc \in RaceScenarios
    /\ fs = InitFs(sc)
    /\ cwd = W
    /\ stack = [t \in Threads |->
                   IF t = 1
                   THEN <<Frame("from_path", Abs(ConfigFile(0)), "run", <<>>, NoConfig)>>
                   ELSE <<Frame("from_path", Abs(ConfigFile(1)), "load", <<>>, NoConfig)>>]
    /\ ret = [t \in Threads |-> None]
    /\ log = <<>>

\* the steps these two resolutions can take, in any interleaving
NextRace ==
    \E t \in Threads :
        \/ FromPath_enter(t)
        \/ WithCurrentDir_save(t)
        \/ WithCurrentDir_chdir(t)
        \/ FromPath_closure(t)
        \/ FromPath_canonicalize(t)
        \/ WithCurrentDir_restore(t)
        \/ Config_run(t)
        \/ Config_load(t)
        \/ Config_load_source(t)
        \/ Loader_load(t)

SpecRace == InitRace /\ [][NextRace]_vars

\* where thread t's from_path was entered and where it returned (0: not yet)
EnteredAt(t) ==
    IF \E k \in LogIdx : log[k].ev = "enter" /\ log[k].t = t
    THEN CHOOSE k \in LogIdx : log[k].ev = "enter" /\ log[k].t = t ELSE 0
ExitedAt(t) ==
    IF \E k \in LogIdx : log[k].ev = "exit" /\ log[k].t = t
    THEN CHOOSE k \in LogIdx : log[k].ev = "exit" /\ log[k].t = t ELSE 0
\* up to position k of the history, the two resolutions have been under way together
OverlapBy(k) ==
    /\ \A t \in Threads : EnteredAt(t) # 0 /\ EnteredAt(t) <= k
    /\ \A t \in Threads : \A o \in Threads \ {t} :
          ~(ExitedAt(t) # 0 /\ ExitedAt(t) < EnteredAt(o))
\* the thread that resolves the paths of document doc
ThreadOf(doc) == IF doc = ConfigFile(0) THEN 1 ELSE 2
\* a path of one thread's document was looked up in the directory of the other's
Misresolved(k) ==
    /\ log[k].ev = "resolve"
    /\ log[k].base # parent(log[k].doc)
    /\ \E o \in Threads \ {ThreadOf(log[k].doc)} : log[k].base = ConfigDir(o - 1)

\* C13: with two resolutions in separate threads the current directory is shared:
\* a path is looked up against another base than its document's, and the directory
\* is left changed after both have returned, only in runs where the two were under
\* way together; both outcomes occur (the witness).
C13_RaceNeedsOverlap ==
    /\ \A k \in LogIdx :
          (log[k].ev = "resolve" /\ log[k].base # parent(log[k].doc)) => OverlapBy(k)
    /\ \A k \in LogIdx :
          (log[k].ev = "exit" /\ log[k].cwd # log[EnterOf(k)].cwd) => OverlapBy(k)
    /\ ((\A t \in Threads : stack[t] = <<>>) /\ cwd # W) => OverlapBy(Len(log))

C13_Witness ==
    /\ \A t \in Threads : stack[t] = <<>>
    /\ cwd # W
    /\ \E k \in LogIdx : Misresolved(k)

----------------------------------------------------------------------------
(* Claims about laziness and early validation *)

\* C14: building the plan (load of a configuration, a loader, a source, a transform)
\* reads no rows from storage, whatever the source; rows are read by an export.
C14_CompileReadsNothing ==
    \A k \in LogIdx : log[k].ev = "read" => log[k].by = "export"

\* a document as written has a structural error: an `and`/`or` of fewer than two
\* operands somewhere in it, or a source path naming no file
MalformedDoc(d) ==
    \/ sc.fault.at = "arity" /\ sc.fault.doc = d
    \/ LET raw == RawSource(sc, d)
       IN  raw.type # "inline" /\ Join(parent(ConfigFile(d)), raw.path) \notin InitFs(sc).files
\* the events of building and running the plan of a document
PlanEvents(d) ==
    SelectSeq(log, LAMBDA e : e.ev \in {"load", "source", "transform", "export"}
                              /\ e.doc = ConfigFile(d))

\* C15: a document with a structural error (an And/Or of fewer than two operands at
\* any nesting, a source path that cannot be canonicalized) fails in from_path at
\* deserialization: no load, no source load, no transform and no export of it happens.
C15_MalformedFailsEarly ==
    \A d \in 0..sc.depth : MalformedDoc(d) => PlanEvents(d) = <<>>
\* the arity half alone: it holds
C15_ArityFailsEarly ==
    \A d \in 0..sc.depth :
        (sc.fault.at = "arity" /\ sc.fault.doc = d) => PlanEvents(d) = <<>>

----------------------------------------------------------------------------
(* SpecCycle: the resolution of configurations whose innermost document names, as
   its Config source, itself or the root document *)

CycleScenarios ==
    {s \in [depth : 0..MaxDepth, nL : 0..MaxTransforms, nD : 0..MaxTransforms,
            nE : 0..MaxExports, cb : {"run", "load"}, src : {"self", "root"},
            present : {TRUE}, fault : {NoFault}, xk : {PlainCsv}] : TRUE}

InitCycle ==
    /\ ExprIdle
    /\ sc \in CycleScenarios
    /\ fs = InitFs(sc)
    /\ cwd = W
    /\ stack = [t \in Threads |->
                   IF t = 1
                   THEN <<Frame("from_path", Abs(ConfigFile(0)), sc.cb, <<>>, NoConfig)>>
                   ELSE <<>>]
    /\ ret = [t \in Threads |-> None]
    /\ log = <<>>

\* the steps such a resolution takes: no load of a cyclic source ever returns, so the
\* steps after a source's load are never reached; a root with no exports returns at once
NextCycle ==
    \E t \in Threads :
        \/ FromPath_enter(t)
        \/ WithCurrentDir_save(t)
        \/ WithCurrentDir_chdir(t)
        \/ FromPath_closure(t)
        \/ WithCurrentDir_restore(t)
        \/ Config_run(t)
        \/ Config_load(t)
        \/ Loader_load(t)

SpecCycle == InitCycle /\ [][NextCycle]_vars

\* C16: resolution of Config sources never opens a document it is still resolving
\* (the configurations form a tree), so it terminates for every set of files on disk,
\* a file naming itself or an ancestor included.
C16_ResolutionAcyclic ==
    \A t \in Threads : Reentered(t) = {}

----------------------------------------------------------------------------
(* SpecExport: run() of one configuration whose exports are of any of the three
   variants, with and without a date format *)

ExportKinds ==
    {[type |-> "csv", date_format |-> d, sink |-> k] :
        d \in {None, Some("%Y"), Some("_%H")}, k \in {None, Some(TRUE), Some(FALSE)}}
    \cup {[type |-> v, date_format |-> d, sink |-> None] :
            v \in {"nd_json", "json"}, d \in {None, Some("%Y"), Some("_%H")}}

ExportScenarios ==
    {s \in [depth : {0}, nL : {0}, nD : 0..1, nE : 1..MaxExports, cb : {"run"},
            src : {"csv", "json", "parquet", "inline"}, present : BOOLEAN,
            fault : {NoFault} \cup {ExportFault(k) : k \in 1..MaxExports},
            xk : ExportKinds] :
        /\ [src |-> s.src, present |-> s.present] \in SourceKinds
        /\ s.fault \in {NoFault} \cup {ExportFault(k) : k \in 1..s.nE}}

InitExport ==
    /\ ExprIdle
    /\ sc \in ExportScenarios
    /\ fs = InitFs(sc)
    /\ cwd = W
    /\ stack = [t \in Threads |->
                   IF t = 1
                   THEN <<Frame("from_path", Abs(ConfigFile(0)), sc.cb, <<>>, NoConfig)>>
                   ELSE <<>>]
    /\ ret = [t \in Threads |-> None]
    /\ log = <<>>

\* the steps of such a run: no nested configuration, no loader transform
NextExport ==
    \E t \in Threads :
        \/ FromPath_enter(t)
        \/ WithCurrentDir_save(t)
        \/ WithCurrentDir_chdir(t)
        \/ FromPath_closure(t)
        \/ FromPath_canonicalize(t)
        \/ WithCurrentDir_restore(t)
        \/ Config_run(t)
        \/ Config_run_loaded(t)
        \/ Config_run_export(t)
        \/ Config_load(t)
        \/ Config_load_source(t)
        \/ Config_load_transform(t)
        \/ Loader_load(t)

SpecExport == InitExport /\ [][NextExport]_vars

\* the extension of each export variant
Extension == [csv |-> ".csv", nd_json |-> ".jsonl", json |-> ".json"]
\* the export the root document lists at position i, and the file it is to write
Listed(i) == RawExports(sc, 0)[i]
Target(e) ==
    LET self == Listed(e.idx)
        stamp == IF self.date_format.some
                 THEN (IF self.date_format.val = "%Y" THEN e.now.Y ELSE "_" \o e.now.H)
                 ELSE ""
    IN  Append(Join(ConfigDir(0), self.folder), self.name \o stamp \o Extension[self.type])

\* C17: an export creates its folder if it is absent, and the only file it writes is
\* folder/name<time formatted with date_format, if set><.csv | .jsonl | .json>; an
\* export that succeeds has written exactly that file.
C17_ExportWritesOneNamedFile ==
    \A k \in LogIdx :
        log[k].ev = "export" =>
            LET folder == Join(ConfigDir(0), Listed(log[k].idx).folder)
            IN  /\ log[k].new \subseteq {Target(log[k])}
                /\ log[k].new # {} => parent(Target(log[k])) \in fs.dirs
                /\ log[k].ok => /\ log[k].new = {Target(log[k])}
                                /\ Target(log[k]) \in fs.files
                                /\ folder \in fs.dirs
                                /\ folder \notin InitFs(sc).dirs

\* every variant has exported with a date format, and one without
C17_Witness ==
    /\ stack[1] = <<>> /\ ret[1] # None /\ ret[1].ok
    /\ sc.nE = 2 /\ sc.xk.type = "json" /\ sc.xk.date_format = Some("_%H")
    /\ \A i \in 1..2 : \E k \in LogIdx : log[k].ev = "export" /\ log[k].idx = i /\ log[k].ok

----------------------------------------------------------------------------
(* The engine's evaluation of plans to rows *)

\* The engine's join of rows.  The key of a row is the value of the key expressions on
\* it; a key with a null in it matches nothing.
KeyOf(on, row) == [i \in 1..Len(on) |-> EvalRow(on[i], row)]
Matches(lo, ro, l, r) ==
    /\ \A i \in 1..Len(lo) : KeyOf(lo, l)[i] # NULL
    /\ KeyOf(lo, l) = KeyOf(ro, r)
\* the columns of the joined frame: the left's, then the right's that are no key
LeftColumns == {"k", "a"}
RightColumns == {"j", "b"}
KeyColumns(on) == {on[i].name : i \in 1..Len(on)}
\* a joined row: the left row (nulls if there is none), the right row's columns that are
\* no key (nulls if there is none); with coalescing, a key column of the left that has
\* no left row takes the right row's key
Joined(lo, ro, l, r) ==
    [c \in LeftColumns \cup (RightColumns \ KeyColumns(ro)) |->
        IF c \in LeftColumns
        THEN (IF l # None THEN l.val[c]
              ELSE IF \E i \in 1..Len(lo) : lo[i].name = c
              THEN r.val[ro[CHOOSE i \in 1..Len(lo) : lo[i].name = c].name]
              ELSE NULL)
        ELSE (IF r # None THEN r.val[c] ELSE NULL)]

RECURSIVE Flatten(_)
Flatten(ss) == IF ss = <<>> THEN <<>> ELSE Head(ss) \o Flatten(Tail(ss))

\* the rows of L, each with the rows of R it matches; alone if it matches none
LeftRows(lo, ro, L, R, keepUnmatched, keepMatched) ==
    Flatten([i \in 1..Len(L) |->
        LET ms == SelectSeq(R, LAMBDA r : Matches(lo, ro, L[i], r))
        IN  IF ms = <<>>
            THEN (IF keepUnmatched THEN <<Joined(lo, ro, Some(L[i]), None)>> ELSE <<>>)
            ELSE (IF keepMatched
                  THEN [m \in 1..Len(ms) |-> Joined(lo, ro, Some(L[i]), Some(ms[m]))]
                  ELSE <<>>)])
\* the rows of R that match no row of L
RightOnly(lo, ro, L, R) ==
    LET rs == SelectSeq(R, LAMBDA r : \A i \in 1..Len(L) : ~Matches(lo, ro, L[i], r))
    IN  [m \in 1..Len(rs) |-> Joined(lo, ro, None, Some(rs[m]))]
RightRows(lo, ro, L, R) ==
    Flatten([m \in 1..Len(R) |->
        LET ls == SelectSeq(L, LAMBDA l : Matches(lo, ro, l, R[m]))
        IN  IF ls = <<>> THEN <<Joined(lo, ro, None, Some(R[m]))>>
            ELSE [i \in 1..Len(ls) |-> Joined(lo, ro, Some(ls[i]), Some(R[m]))]])

Engine_join(how, lo, ro, L, R) ==
    CASE how = "Inner" -> LeftRows(lo, ro, L, R, FALSE, TRUE)
      [] how = "Left" -> LeftRows(lo, ro, L, R, TRUE, TRUE)
      [] how = "Right" -> RightRows(lo, ro, L, R)
      [] how = "Full" -> LeftRows(lo, ro, L, R, TRUE, TRUE) \o RightOnly(lo, ro, L, R)
      [] how = "Anti" -> SelectSeq(L, LAMBDA l : \A m \in 1..Len(R) : ~Matches(lo, ro, l, R[m]))

\* a row extended by the columns f, which replace columns of the same name
Extended(row, f) ==
    [c \in DOMAIN row \cup DOMAIN f |-> IF c \in DOMAIN f THEN f[c] ELSE row[c]]
\* the columns one expression of a select contributes for a row
Selected(x, row) ==
    IF x = col("*") THEN row
    ELSE LET name == IF x.e \in {"alias", "col"} THEN x.name ELSE "literal"
         IN  [c \in {name} |-> EvalRow(x, row)]
RECURSIVE Select_row(_, _, _)
\* the row a select makes of a row, from expression i on
Select_row(exprs, i, row) ==
    IF i > Len(exprs) THEN [c \in {} |-> NULL]
    ELSE Extended(Selected(exprs[i], row), Select_row(exprs, i + 1, row))
\* a row with the struct column `name` replaced by the struct's fields
Unnested(row, name) ==
    [c \in (DOMAIN row \ {name}) \cup DOMAIN row[name] |->
        IF c \in DOMAIN row[name] THEN row[name][c] ELSE row[c]]

RECURSIVE Engine_collect(_)
\* the rows the engine computes for a plan: a filter keeps the rows on which its
\* predicate is true, a vertical concat appends the other frame's rows
Engine_collect(lf) ==
    LET n == lf[Len(lf)]
        input == Engine_collect(SubSeq(lf, 1, Len(lf) - 1))
    IN  CASE n.op = "frame" -> n.rows
          [] n.op = "join" ->
                Engine_join(n.how, n.left_on, n.right_on, input, Engine_collect(n.right))
          [] n.op = "filter" -> SelectSeq(input, LAMBDA row : EvalRow(n.predicate, row) = "true")
          [] n.op = "select" -> [i \in 1..Len(input) |-> Select_row(n.exprs, 1, input[i])]
          [] n.op = "unnest" -> [i \in 1..Len(input) |-> Unnested(input[i], n.names[1])]
          [] n.op = "concat" -> input \o Engine_collect(n.other)

\* the plans whose rows the model computes: joins are collected on frames of their own
\* columns (SpecJoin), a concat when it appends rows of the same columns
Collectable(lf) ==
    \A i \in 1..Len(lf) :
        /\ lf[i].op # "join"
        /\ lf[i].op = "concat" => lf[i].how # "concat_lf_horizontal"

----------------------------------------------------------------------------
(* SpecJoin: a Join transform applied to a plan, and the plan collected *)

LeftFrames == SeqsUpTo([k : {"x", "y", NULL}, a : {"1"}], MaxRows)
RightFrames == SeqsUpTo([j : {"x", "y", NULL}, b : {"p"}], MaxRows)
\* the right loader: a frame written inline, or a JSON file that is not there
RightLoaders(R) ==
    {[source |-> [type |-> "inline", df |-> R], transforms |-> <<>>],
     [source |-> [type |-> "json", path |-> <<"w", "missing.json">>], transforms |-> <<>>]}
JoinInputs ==
    {[lf1 |-> InMemory(<<>>, L),
      join |-> JoinItem(ld, <<ExpressionChain(Col("k"), <<>>)>>,
                        <<ExpressionChain(Col("j"), <<>>)>>, how)] :
        L \in LeftFrames, how \in JoinTypes,
        ld \in UNION {RightLoaders(R) : R \in RightFrames}}

InitJoin ==
    /\ ConfigIdle
    /\ ain \in JoinInputs
    /\ node = None
    /\ res = None
    /\ epc = "built"

\* the transform applied: lf = transform.transform(lf)?
ApplyJoin ==
    /\ epc = "built"
    /\ res' = TransformItem_transform(ain.join, ain.lf1, cwd, fs, <<>>)
    /\ epc' = "joined"
    /\ UNCHANGED <<ain, node>> /\ UNCHANGED cvars

\* the plan run by the engine
CollectJoin ==
    /\ epc = "joined"
    /\ res.ok
    /\ node' = Some(Engine_collect(res.val))
    /\ epc' = "collected"
    /\ UNCHANGED <<ain, res>> /\ UNCHANGED cvars

NextJoin == ApplyJoin \/ CollectJoin
SpecJoin == InitJoin /\ [][NextJoin]_vars

\* the engine join type of each name
EngineNamed == [inner |-> "Inner", left |-> "Left", right |-> "Right", full |-> "Full",
                anti |-> "Anti"]
\* the rows of the left-hand frame and of the right-hand frame of the input
JoinLeft == ain.lf1[1].rows
JoinRight == ain.join.right.source.df
\* how many rows of the right-hand frame have the key of left row l
MatchCount(l) ==
    Cardinality({m \in 1..Len(JoinRight) : l.k # NULL /\ JoinRight[m].j = l.k})
\* how many rows x of the sequence rows satisfy x.k = k
WithKey(rows, k) == Cardinality({i \in 1..Len(rows) : rows[i].k = k})

\* C18: a Join appends to the accumulated plan a join whose engine type has the name of
\* `how`, with the accumulated plan on the left and the loaded right loader on the
\* right; with how = left every left row is kept, once for every right row it matches
\* and once if it matches none, and then with nulls in the right-hand columns.
C18_JoinMapsHow ==
    /\ (epc \in {"joined", "collected"} /\ res.ok) =>
          LET j == res.val[Len(res.val)]
          IN  /\ j.op = "join"
              /\ j.how = EngineNamed[ain.join.how]
              /\ SubSeq(res.val, 1, Len(res.val) - 1) = ain.lf1
              /\ j.right = InMemory(<<>>, JoinRight)
    /\ (epc = "collected" /\ ain.join.how = "left") =>
          LET rows == node.val
          IN  /\ \A k \in {"x", "y", NULL} :
                    WithKey(rows, k) =
                        WithKey(JoinLeft, k)
                        * (IF k # NULL /\ WithKey([m \in 1..Len(JoinRight) |->
                                                      [k |-> JoinRight[m].j]], k) > 0
                           THEN WithKey([m \in 1..Len(JoinRight) |-> [k |-> JoinRight[m].j]], k)
                           ELSE 1)
              /\ \A i \in 1..Len(rows) :
                    /\ rows[i].a = "1"
                    /\ rows[i].b = (IF MatchCount(rows[i]) = 0 THEN NULL ELSE "p")

\* a left join of two left rows, one matching two right rows and one matching none
C18_Witness ==
    /\ epc = "collected" /\ ain.join.how = "left"
    /\ Len(JoinLeft) = 2 /\ Len(JoinRight) = 2
    /\ MatchCount(JoinLeft[1]) = 2 /\ MatchCount(JoinLeft[2]) = 0
    /\ Len(node.val) = 3

----------------------------------------------------------------------------
(* Claims about errors *)

\* the errors the engine and the operating system raise: a regex that does not compile,
\* a file that cannot be read, a file or folder that cannot be written
EngineErrors == {"regex parse error", "No such file or directory", "Not a directory"}

\* C19: an engine error (bad regex, failed read, failed write) raised while evaluating
\* an expression, loading a source, applying a transform or exporting reaches the
\* caller of from_path wrapped in a context that names the node it came from.
C19_ErrorsCarryContext ==
    \A t \in Threads :
        (stack[t] = <<>> /\ ret[t] # None /\ ~ret[t].ok /\ ret[t].err \in EngineErrors)
            => ret[t].context # <<>>

----------------------------------------------------------------------------
(* SpecSep: sources.rs, the CSV separator.  A char is its code point. *)

\* u8::try_from(char): the code point if it fits in a byte
u8_try_from(c) == IF c >= 2 ^ 8 THEN Err("TryFromCharError") ELSE Ok(c)

\* impl TryFrom<char> for Separator: Ok(Self(u8::try_from(value)?))
Separator_try_from(value) ==
    LET b == u8_try_from(value)
    IN  IF b.ok THEN Ok([byte |-> b.val]) ELSE b

\* CsvSource::load: reader.with_separator(self.separator.unwrap().0) if there is one;
\* the reader's separator is b',' otherwise
CsvSource_separator(separator) ==
    IF separator.some THEN separator.val.byte ELSE 44

Chars == 0..MaxChar

InitSep ==
    /\ ConfigIdle
    /\ ain \in Chars
    /\ node = None
    /\ res = None
    /\ epc = "built"

\* serde(try_from = "char"): the separator constructed from the character read
ConstructSeparator ==
    /\ epc = "built"
    /\ res' = Separator_try_from(ain)
    /\ epc' = "constructed"
    /\ UNCHANGED <<ain, node>> /\ UNCHANGED cvars

\* the source loaded with the separator, if it was constructed
LoadWithSeparator ==
    /\ epc = "constructed"
    /\ res.ok
    /\ node' = Some(CsvSource_separator(Some(res.val)))
    /\ epc' = "loaded"
    /\ UNCHANGED <<ain, res>> /\ UNCHANGED cvars

NextSep == ConstructSeparator \/ LoadWithSeparator
SpecSep == InitSep /\ [][NextSep]_vars

\* C20: a Separator is constructed from a character exactly when the character is
\* ASCII (code point 0..127); then the byte stored, and handed to the CSV reader, is the
\* character's code point.
C20_SeparatorAsciiOnly ==
    /\ epc \in {"constructed", "loaded"} =>
          /\ res.ok <=> ain <= 127
          /\ res.ok => res.val.byte = ain
    /\ epc = "loaded" => node = Some(ain)

----------------------------------------------------------------------------
(* Claims about validated and directly built And/Or nodes *)

ArityMessages == {ArityMsgAnd, ArityMsgOr}

\* C21: evaluating an And/Or that the validating constructor accepted never fails with
\* the arity error: it fails only with the error of an operand that failed, and
\* succeeds when every operand does.
C21_ValidatedNeverArityError ==
    (epc = "evaluated" /\ node.via = "try_from") =>
        LET rs == OperandResults
        IN  /\ ~res.ok => (res.err \notin ArityMessages /\ \E i \in 1..Len(rs) : res = rs[i])
            /\ (\A i \in 1..Len(rs) : rs[i].ok) => res.ok

\* a validated node of either level has been evaluated; one fails through an operand
C21_Witness ==
    /\ epc = "evaluated" /\ node.via = "try_from" /\ ~res.ok
    /\ ain.lvl = "expression" /\ Len(ain.value) = 2 /\ OperandResults[1].ok

\* C22: the chained And and Or have no arity requirement: a chain list of any length,
\* 0 and 1 included, is accepted as written and applied, and with an empty list the
\* result is the incoming expression itself.
C22_ChainedOpsAnyLength ==
    (epc # "written" /\ ain.op.type \in {"or", "and"}) =>
        /\ node = Ok(ain.op)
        /\ epc # "rejected"
        /\ epc = "evaluated" =>
              /\ ain.op.chains = <<>> => res = Ok(ain.expr)
              /\ res.ok <=> \A i \in 1..Len(ain.op.chains) :
                                ExpressionChain_expr(ain.op.chains[i]).ok

\* a chained Or of no chain and a chained And of one chain have been applied
C22_Witness ==
    /\ epc = "evaluated" /\ res.ok
    /\ ain.op.type = "or" /\ ain.op.chains = <<>>

----------------------------------------------------------------------------
(* SpecTransform: one transform applied to a plan over a frame, and the plan collected *)

TableRows == [a : {"foo", "bar", "foobar", NULL}, b : {"bar", NULL}]
Tables == SeqsUpTo(TableRows, MaxRows)
\* the chains a Filter lists: a contains foo, b contains bar, b is null, a bad regex
Predicates == {ExpressionChain(M1, <<>>), K1, K3, KBad}
\* the other loader of a Concat, the right loader of a Join: an inline frame with no
\* transform, with a filter, with a transform that fails, or a JSON file that is missing
OtherRows == <<[a |-> "foo", b |-> "bar"], [a |-> "bar", b |-> NULL]>>
OtherLoaders ==
    {[source |-> [type |-> "inline", df |-> OtherRows], transforms |-> ts] :
        ts \in {<<>>, <<Filter(<<K1>>)>>, <<Filter(<<K1>>), Filter(<<K3>>)>>,
                <<Filter(<<KBad>>)>>, <<Filter(<<K1>>), Select(<<KBad>>)>>}}
    \cup {[source |-> [type |-> "json", path |-> <<"w", "missing.json">>],
           transforms |-> <<Filter(<<K1>>)>>]}
TransformInputs ==
    {[lf1 |-> InMemory(<<>>, L), t |-> t] :
        L \in Tables,
        t \in {Filter(cs) : cs \in SeqsUpTo(Predicates, MaxChains)}
              \cup {Extract(Match("a", p), fl) : p \in {"f(o+)", "("}, fl \in BOOLEAN}
              \cup {Concat(ld, how) : ld \in OtherLoaders, how \in ConcatTypes}
              \cup {JoinItem(ld, <<K2>>, <<K2>>, how) : ld \in OtherLoaders, how \in {"left", "inner"}}}

InitTransform ==
    /\ ConfigIdle
    /\ ain \in TransformInputs
    /\ node = None
    /\ res = None
    /\ epc = "built"

\* the transform applied: lf = transform.transform(lf)?
ApplyTransform ==
    /\ epc = "built"
    /\ res' = TransformItem_transform(ain.t, ain.lf1, cwd, fs, <<>>)
    /\ epc' = "applied"
    /\ UNCHANGED <<ain, node>> /\ UNCHANGED cvars

\* the plan run by the engine
CollectPlan ==
    /\ epc = "applied"
    /\ res.ok /\ Collectable(res.val)
    /\ node' = Some(Engine_collect(res.val))
    /\ epc' = "collected"
    /\ UNCHANGED <<ain, res>> /\ UNCHANGED cvars

NextTransform == ApplyTransform \/ CollectPlan
SpecTransform == InitTransform /\ [][NextTransform]_vars

----------------------------------------------------------------------------
(* Claims about transforms *)

\* the rows of the frame the transform is applied to
TableIn == ain.lf1[1].rows
\* the Results of evaluating the chains of a Filter, in document order
ChainResults == [i \in 1..Len(ain.t.chains) |-> ExpressionChain_expr(ain.t.chains[i])]
\* the nodes a transform appended to the plan
Appended == SubSeq(res.val, Len(ain.lf1) + 1, Len(res.val))

\* C23: a Filter of chains f1..fn appends one filter per chain in document order and
\* keeps exactly the rows on which every fi is true; with no chain the plan is
\* unchanged; when chain k fails the transform fails with its error.
C23_FilterKeepsConjunction ==
    (epc \in {"applied", "collected"} /\ ain.t.type = "filter") =>
        LET rs == ChainResults
        IN  /\ res.ok <=> \A i \in 1..Len(rs) : rs[i].ok
            /\ ~res.ok => res = rs[FirstFailure(rs)]
            /\ res.ok =>
                  /\ SubSeq(res.val, 1, Len(ain.lf1)) = ain.lf1
                  /\ Appended = [i \in 1..Len(rs) |-> [op |-> "filter", predicate |-> rs[i].val]]
            /\ ain.t.chains = <<>> => res = Ok(ain.lf1)
            /\ epc = "collected" =>
                  node.val = SelectSeq(TableIn,
                                 LAMBDA row : \A i \in 1..Len(rs) : EvalRow(rs[i].val, row) = "true")

\* two filters have removed one of two rows
C23_Witness ==
    /\ epc = "collected" /\ ain.t.type = "filter" /\ Len(ain.t.chains) = 2
    /\ ain.t.chains[1] # ain.t.chains[2]
    /\ Len(TableIn) = 2 /\ Len(node.val) = 1

\* the text of column a of a row is found by the pattern of the Extract
Found(row) == <<ain.t.matcher.pattern, row.a>> \in RegexFinds

\* C24: an Extract with filter = true first filters on the match and then extracts, so
\* only the rows that match are left; with filter = false no row is removed; either
\* way every row left has its original columns and the capture groups as new ones.
C24_ExtractFiltersFirst ==
    (epc \in {"applied", "collected"} /\ ain.t.type = "extract" /\ res.ok) =>
        /\ Appended[Len(Appended) - 1].op = "select"
        /\ Appended[Len(Appended)].op = "unnest"
        /\ IF ain.t.filter
           THEN Len(Appended) = 3 /\ Appended[1] = [op |-> "filter",
                                                   predicate |-> Match_expr(ain.t.matcher).val]
           ELSE Len(Appended) = 2
        /\ epc = "collected" =>
              LET kept == IF ain.t.filter THEN SelectSeq(TableIn, Found) ELSE TableIn
              IN  /\ Len(node.val) = Len(kept)
                  /\ \A i \in 1..Len(kept) :
                        /\ DOMAIN node.val[i] = {"a", "b", "1"}
                        /\ node.val[i].a = kept[i].a /\ node.val[i].b = kept[i].b
                        /\ node.val[i]["1"] = (IF Found(kept[i]) THEN "oo" ELSE NULL)

\* an Extract that filters has removed the row that does not match
C24_Witness ==
    /\ epc = "collected" /\ ain.t.type = "extract" /\ ain.t.filter
    /\ Len(TableIn) = 2 /\ Len(node.val) = 1

\* the second loader of a Join or Concat
Second == IF ain.t.type = "join" THEN ain.t.right ELSE ain.t.loader
\* what loading it gives: its source, then each of its transforms in order
SecondLoaded ==
    LET src == SourceItem_load(Second.source, FALSE, cwd, fs, <<>>)
    IN  IF ~src.ok THEN src ELSE Loader_fold(Second.transforms, 1, src.val, cwd, fs, <<>>)

\* C25: a Join or Concat loads its second loader completely, that loader's transforms
\* included, and combines the loaded plan with the accumulated one; when the load
\* fails the transform returns that error and builds nothing.
C25_SecondLoaderFirst ==
    (epc \in {"applied", "collected"} /\ ain.t.type \in {"join", "concat"}) =>
        /\ ~SecondLoaded.ok => res = SecondLoaded
        /\ SecondLoaded.ok =>
              /\ res.ok
              /\ Len(Appended) = 1
              /\ SubSeq(res.val, 1, Len(ain.lf1)) = ain.lf1
              /\ Appended[1].op = ain.t.type
              /\ (IF ain.t.type = "join" THEN Appended[1].right ELSE Appended[1].other)
                    = SecondLoaded.val
              /\ Len(SecondLoaded.val) = 1 + Len(Second.transforms)

\* a Concat whose other loader has two transforms has been collected
C25_Witness ==
    /\ epc = "collected" /\ ain.t.type = "concat" /\ Len(ain.t.loader.transforms) = 2
    /\ Len(TableIn) = 1 /\ Len(node.val) = 1

----------------------------------------------------------------------------
(* Claims about Loader::load *)

\* the transforms Loader::load of document d has applied, in the order it applied them
LoaderSteps(d) ==
    SelectSeq(log, LAMBDA e : e.ev = "transform" /\ e.stage = "loader" /\ e.doc = ConfigFile(d))
\* Loader::load of document d has returned to Config::load on thread t
LoaderReturned(t, d) ==
    At(t, "load", "source") /\ Top(t).doc = ConfigFile(d) /\ ret[t] # None

\* C26: Loader::load applies its transforms in document order, each at most once, and
\* stops at the first failure: no transform is applied when the source's load fails,
\* and when transform k fails load returns its error and k+1.. are never applied.
C26_LoaderStopsAtFirstFailure ==
    \A d \in 0..sc.depth :
        LET evs == LoaderSteps(d)
        IN  /\ Len(evs) <= sc.nL
            /\ \A k \in 1..Len(evs) : evs[k].idx = k /\ (k < Len(evs) => evs[k].ok)
            /\ \A t \in Threads :
                  LoaderReturned(t, d) =>
                      /\ IF ret[t].ok
                         THEN Len(evs) = sc.nL /\ \A k \in 1..Len(evs) : evs[k].ok
                         ELSE \/ evs = <<>>
                              \/ ~evs[Len(evs)].ok /\ ret[t] = evs[Len(evs)].r
                      /\ (sc.present /\ sc.fault.at = "transform" /\ sc.fault.stage = "loader"
                            /\ sc.fault.doc >= d) =>
                            /\ ~ret[t].ok
                            /\ Len(evs) = IF sc.fault.doc = d THEN sc.fault.idx ELSE 0
                      /\ (~sc.present /\ sc.src \in {"json", "config"}) =>
                            ~ret[t].ok /\ evs = <<>>

\* the first of two transforms of a loader has failed and the loader has returned
C26_Witness ==
    /\ sc.depth = 0 /\ sc.nL = 2 /\ sc.fault = TransformFault(0, "loader", 1)
    /\ LoaderReturned(1, 0)
    /\ Len(LoaderSteps(0)) = 1 /\ ~ret[1].ok

----------------------------------------------------------------------------
(* Claims about the binary operations of a chain *)

\* rows of whole numbers, column a a multiple of column b
NumRows == {[a |-> 6, b |-> 2], [a |-> 6, b |-> 3], [a |-> 4, b |-> 4], [a |-> 0, b |-> 5]}

\* the engine's binary operators on two values
Operator(name, x, y) ==
    CASE name = "eq" -> x = y
      [] name = "neq" -> x # y
      [] name = "gt" -> x > y
      [] name = "lt" -> x < y
      [] name = "gt_eq" -> x >= y
      [] name = "lt_eq" -> x <= y
      [] name = "div" -> x \div y
      [] name = "mul" -> x * y
      [] name = "add" -> x + y
      [] name = "sub" -> x - y

RECURSIVE EvalNum(_, _)
\* the value of an expression of columns and binary operators on a row
EvalNum(x, row) ==
    CASE x.e = "col" -> row[x.name]
      [] x.e = "lit" -> x.value
      [] x.e \in BinaryOpTypes -> Operator(x.e, EvalNum(x.left, row), EvalNum(x.right, row))

\* C27: a binary operation applied to e with own chain k is the engine operator of the
\* same name with e on the left and k on the right: Sub gives e - k, Div e / k, Gt e > k,
\* Lt e < k, GtEq e >= k, LtEq e <= k, Add e + k, Mul e * k, Eq e = k, Neq e # k.
C27_BinaryOpsLeftToRight ==
    (epc = "evaluated" /\ ain.op.type \in BinaryOpTypes) =>
        LET k == ExpressionChain_expr(ain.op.chain)
            type == ain.op.type
        IN  /\ res.ok
            /\ res.val.e = type
            /\ res.val.left = ain.expr
            /\ res.val.right = k.val
            /\ ain.expr.e = "col" =>
                  \A row \in NumRows :
                      LET e == EvalNum(ain.expr, row)
                          v == EvalNum(k.val, row)
                          out == EvalNum(res.val, row)
                      IN  /\ type = "sub" => out = e - v
                          /\ type = "div" => out = e \div v
                          /\ type = "gt" => out = (e > v)
                          /\ type = "lt" => out = (e < v)
                          /\ type = "gt_eq" => out = (e >= v)
                          /\ type = "lt_eq" => out = (e <= v)
                          /\ type = "add" => out = e + v
                          /\ type = "mul" => out = e * v
                          /\ type = "eq" => out = (e = v)
                          /\ type = "neq" => out = (e # v)

\* a Sub has been applied to a column, and the operands the other way round would give
\* another value
C27_Witness ==
    /\ epc = "evaluated" /\ res.ok /\ ain.op.type = "sub" /\ ain.expr = col("a")
    /\ \E row \in NumRows :
          EvalNum(res.val, row) # EvalNum(res.val.right, row) - EvalNum(res.val.left, row)

----------------------------------------------------------------------------
(* Claims about nested configurations *)

\* the transforms applied so far, in the order they were applied
TransformTrace ==
    LET evs == SelectSeq(log, LAMBDA e : e.ev = "transform")
    IN  [k \in 1..Len(evs) |-> <<evs[k].doc, evs[k].stage, evs[k].idx>>]
\* the two stages of document d: its loader's transforms, then its own
PipelineOf(d) ==
    [k \in 1..sc.nL |-> <<ConfigFile(d), "loader", k>>]
        \o [k \in 1..sc.nD |-> <<ConfigFile(d), "document", k>>]
RECURSIVE NestedDue(_)
\* the transforms of document d and of every configuration nested below it, innermost first
NestedDue(d) == IF d > sc.depth THEN <<>> ELSE NestedDue(d + 1) \o PipelineOf(d)

\* C28: with a nested configuration as source the transforms are applied in the order
\* nested loader, nested document, outer loader, outer document, and the nested
\* configuration's from_path has returned its plan before any outer transform is applied.
C28_NestedPipelineFirst ==
    /\ Len(TransformTrace) <= Len(NestedDue(0))
    /\ TransformTrace = SubSeq(NestedDue(0), 1, Len(TransformTrace))
    /\ (LoadedOk /\ (sc.cb \in {"load", "dump"} \/ sc.nE > 0)) => TransformTrace = NestedDue(0)
    /\ \A d \in 0..(sc.depth - 1) : \A i \in LogIdx :
          (log[i].ev = "transform" /\ log[i].doc = ConfigFile(d)) =>
              /\ \E j \in 1..(i - 1) :
                    log[j].ev = "exit" /\ log[j].path = ConfigFile(d + 1) /\ log[j].ok
              /\ \A j \in LogIdx :
                    (log[j].ev = "transform" /\ log[j].doc = ConfigFile(d + 1)) => j < i

\* a configuration nested two deep, each document with transforms at both stages, has
\* been loaded
C28_Witness ==
    /\ sc.depth = 2 /\ sc.nL = 1 /\ sc.nD = 2 /\ LoadedOk
    /\ TransformTrace = NestedDue(0) /\ Len(TransformTrace) = 9

----------------------------------------------------------------------------
(* SpecFromPath: Config::from_path called with a path of any kind: the
   configuration file (absolute, or relative to the working directory), a path where
   nothing exists, and a directory, which canonicalizes and cannot be read *)

FromPathRoots ==
    {Abs(ConfigFile(0)), Rel(<<"a", "c.toml">>), Abs(<<"w", "missing.toml">>), Abs(ConfigDir(0))}

FromPathScenarios ==
    {s \in Scenarios : /\ ScenarioOk(s) /\ s.cb # "schema"
                       /\ s.depth <= 1 /\ s.nL <= 1 /\ s.nD <= 1}

InitFromPath ==
    /\ ExprIdle
    /\ sc \in FromPathScenarios
    /\ fs = InitFs(sc)
    /\ cwd = W
    /\ \E p \in FromPathRoots :
          stack = [t \in Threads |->
                      IF t = 1 THEN <<Frame("from_path", p, sc.cb, <<>>, NoConfig)>> ELSE <<>>]
    /\ ret = [t \in Threads |-> None]
    /\ log = <<>>

NextFromPath ==
    \E t \in Threads :
        \/ FromPath_enter(t)
        \/ WithCurrentDir_save(t)
        \/ WithCurrentDir_chdir(t)
        \/ FromPath_closure(t)
        \/ FromPath_canonicalize(t)
        \/ WithCurrentDir_restore(t)
        \/ Config_run(t)
        \/ Config_run_loaded(t)
        \/ Config_run_export(t)
        \/ Config_load(t)
        \/ Config_load_source(t)
        \/ Config_load_transform(t)
        \/ Loader_load(t)
        \/ Loader_load_source(t)
        \/ Loader_load_transform(t)
        \/ Main_dump(t)
        \/ Main_dump_loaded(t)
        \/ Main_dump_write(t)

SpecFromPath == InitFromPath /\ [][NextFromPath]_vars

----------------------------------------------------------------------------
(* Claims about the callback of Config::from_path *)

\* the invocations of func for the configuration read from path
CallbacksOf(path) == {i \in LogIdx : log[i].ev = "callback" /\ log[i].doc = path}
\* the text of configuration d parses in the directory of its file
ParsesOk(d) == toml_from_str(RawDoc(sc, d), ConfigDir(d), InitFs(sc)).ok
\* the configuration files of the scenario
ConfigFiles == {ConfigFile(d) : d \in 0..sc.depth}
\* log[j] is the failed return of a from_path whose file could be read but not parsed
ParseFailedAt(j) ==
    /\ log[j].ev = "exit"
    /\ \E d \in 0..sc.depth : log[j].path = ConfigFile(d) /\ ~ParsesOk(d)

\* C29: single-threaded, func is invoked at most once per from_path, only for a file
\* that was read and parsed, and in the directory of that file; a from_path whose path
\* cannot be canonicalized or read returns without a change of directory and without
\* invoking func; one whose text does not parse returns without invoking func, in the
\* directory it was called in.
C29_CallbackOnceAfterParse ==
    \A i \in LogIdx :
        /\ log[i].ev = "callback" =>
              /\ Cardinality(CallbacksOf(log[i].doc)) = 1
              /\ \E d \in 0..sc.depth : log[i].doc = ConfigFile(d) /\ ParsesOk(d)
              /\ \E j \in 1..(i - 1) : log[j].ev = "enter" /\ log[j].path = log[i].doc
              /\ \A j \in 1..(i - 1) : ~(log[j].ev = "exit" /\ log[j].path = log[i].doc)
              /\ log[i].cwd = parent(log[i].doc)
        /\ (log[i].ev = "enter" /\ log[i].path \notin ConfigFiles) =>
              /\ i < Len(log)
              /\ log[i + 1].ev = "exit" /\ log[i + 1].path = log[i].path /\ ~log[i + 1].ok
              /\ log[i + 1].cwd = log[i].cwd
              /\ CallbacksOf(log[i].path) = {}
        /\ ParseFailedAt(i) =>
              /\ ~log[i].ok
              /\ CallbacksOf(log[i].path) = {}
              /\ log[i].cwd = log[EnterOf(i)].cwd
              /\ \A h \in (i + 1)..Len(log) : log[h].ev = "callback" => log[h].cwd = log[i].cwd

\* the nested configuration did not parse, after func was invoked for the root one, and
\* both from_path calls have returned
C29_Witness ==
    /\ stack[1] = <<>> /\ sc.depth = 1 /\ ~ParsesOk(1) /\ ParsesOk(0)
    /\ Cardinality(CallbacksOf(ConfigFile(0))) = 1
    /\ \E j \in LogIdx : ParseFailedAt(j) /\ log[j].cwd = ConfigDir(0)
    /\ cwd = W

----------------------------------------------------------------------------
(* Claims about And/Or nodes built as struct literals *)

\* the arity message of the node's kind
ArityMsgOf(kind) == IF kind = "and" THEN ArityMsgAnd ELSE ArityMsgOr

\* C30: an And/Or built directly through its public conditions field and evaluated
\* returns the arity error of its kind when it has no operand, and with exactly one
\* operand returns what that operand evaluates to, with no arity error.
C30_LiteralArityAtEvaluation ==
    (epc = "evaluated" /\ node.via = "literal") =>
        /\ Len(ain.value) = 0 => res = Err(ArityMsgOf(ain.kind))
        /\ Len(ain.value) = 1 =>
              /\ res = OperandResults[1]
              /\ ~res.ok => res.err \notin ArityMessages
              /\ ain.value[1].type = "match" =>
                    res = Ok(str_contains(col(ain.value[1].column), ain.value[1].pattern))

\* an And built directly over one Match has been evaluated to that Match's expression
C30_Witness ==
    /\ epc = "evaluated" /\ node.via = "literal" /\ ain.kind = "and"
    /\ ain.value = <<M1>> /\ res.ok

====
